---------------------------- MODULE Spec2Model ----------------------------
(***************************************************************************)
(* A model of SEAL-C's record parser (seal-parse.cpp): the byte codecs    *)
(* SealStrDecode / SealStrEncode / SealXmlDecode and the finite state     *)
(* machine SealParse.  Bytes are integers 0..255, buffers are sequences   *)
(* of bytes; a C index k is the TLA+ index k+1.                           *)
(***************************************************************************)
EXTENDS Integers, Sequences, FiniteSets, TLC

(***************************************************************************)
(* Bytes and <ctype.h> in the C locale.                                    *)
(***************************************************************************)
\* The printable bytes 32..95 and 97..126, in code order (96 is not used).
PrintLo == " !\"#$%&'()*+,-./0123456789:;<=>?@ABCDEFGHIJKLMNOPQRSTUVWXYZ[\\]^_"
PrintHi == "abcdefghijklmnopqrstuvwxyz{|}~"

Ord(c) ==
  IF \E k \in 1..Len(PrintLo) : SubSeq(PrintLo, k, k) = c
  THEN 31 + (CHOOSE k \in 1..Len(PrintLo) : SubSeq(PrintLo, k, k) = c)
  ELSE 96 + (CHOOSE k \in 1..Len(PrintHi) : SubSeq(PrintHi, k, k) = c)

\* The bytes of a string literal.
B(s) == [k \in 1..Len(s) |-> Ord(SubSeq(s, k, k))]

NUL == 0
SPC == Ord(" ")
LT == Ord("<")
GT == Ord(">")
SLASH == Ord("/")
EQ == Ord("=")
BSL == Ord("\\")
DQ == Ord("\"")
SQ == Ord("'")
AMP == Ord("&")

isspace(c) == c \in 9..13 \/ c = 32
isdigit(c) == c \in 48..57
isupper(c) == c \in 65..90
islower(c) == c \in 97..122
isalpha(c) == isupper(c) \/ islower(c)
isalnum(c) == isalpha(c) \/ isdigit(c)
isxdigit(c) == isdigit(c) \/ c \in 65..70 \/ c \in 97..102
isprint(c) == c \in 32..126

\* strchr(set, c) != NULL: the terminating NUL of the literal matches c = 0.
strchr(s, c) == c = NUL \/ \E k \in 1..Len(s) : s[k] = c

Max(a, b) == IF a >= b THEN a ELSE b

(***************************************************************************)
(* A field's value memory.  Value[k] for k below the length is the byte   *)
(* stored; the allocation carries zeroed padding after it.                 *)
(***************************************************************************)
Get(V, k) == IF k < Len(V) THEN V[k + 1] ELSE NUL
Put(V, k, b) == IF k < Len(V) THEN [V EXCEPT ![k + 1] = b] ELSE V
\* memcmp(Value+i, lit, Len(lit)) == 0, the caller having checked the length
Match(V, i, lit) == \A k \in 1..Len(lit) : Get(V, i + k - 1) = lit[k]

\* The string literals of the source, as bytes.
L_seal == B("<seal")
L_xmpseal == B("<xmp:seal")
L_gtsp == B("> ")
L_close == B("/>")
L_unq == B(" <>")
L_quot == B("&quot;")
L_end == B("<>/")
L_hex == B("&#x")
L_dec == B("&#")
L_s == B("s")

\* struct entities[]: {len, code, c}.  len is the number of bytes memcmp
\* compares; for "&lt;" and "&gt;" it is one more than the literal's length.
entities ==
  << [len |-> 5, code |-> B("&lt;"), c |-> LT],
     [len |-> 5, code |-> B("&gt;"), c |-> GT],
     [len |-> 6, code |-> B("&quot;"), c |-> DQ],
     [len |-> 6, code |-> B("&apos;"), c |-> SQ],
     [len |-> 5, code |-> B("&amp;"), c |-> AMP] >>

\* !memcmp(Value+i, code, len): the byte after a literal's last is its NUL.
MatchLen(V, i, code, len) == \A k \in 1..len : Get(V, i + k - 1) = Get(code, k - 1)


(***************************************************************************)
(* SealStrDecode(): remove \quote, in place.                               *)
(* The loop state is the value memory V, the read index i, the write      *)
(* index j and hi, the highest index of V the loop has touched.            *)
(***************************************************************************)
RECURSIVE StrDecodeLoop(_, _, _, _)
StrDecodeLoop(V, i, j, hi) ==
  IF i >= Len(V) THEN [V |-> V, i |-> i, j |-> j, hi |-> hi]
  ELSE LET i1 == IF Get(V, i) = BSL THEN i + 1 ELSE i
           V1 == IF i1 # j THEN Put(V, j, Get(V, i1)) ELSE V
           h1 == IF i1 # j THEN Max(hi, i1) ELSE Max(hi, i)
       IN  StrDecodeLoop(V1, i1 + 1, j + 1, h1)

SealStrDecodeRun(V) == StrDecodeLoop(V, 0, 0, -1)

\* Data->ValueLen = j; the bytes j..i-1 are zeroed and lie past the new length.
SealStrDecode(V) ==
  IF Len(V) = 0 THEN V ELSE LET r == SealStrDecodeRun(V) IN SubSeq(r.V, 1, r.j)

(***************************************************************************)
(* SealStrEncode(): add \quote.  First the new length is counted, then    *)
(* the bytes are moved from the last one backwards.  i and j are size_t:  *)
(* they wrap below zero together (j - i is the number of quotes left),    *)
(* so the loop test j > i ends the loop exactly as it does on integers.    *)
(***************************************************************************)
Quotes == <<SQ, DQ>>

RECURSIVE StrEncodeCount(_, _, _)
StrEncodeCount(V, i, j) ==
  IF i >= Len(V) THEN j
  ELSE StrEncodeCount(V, i + 1, IF strchr(Quotes, Get(V, i)) THEN j + 2 ELSE j + 1)

RECURSIVE StrEncodeCopy(_, _, _)
StrEncodeCopy(V, i, j) ==
  IF ~(j > i) THEN V
  ELSE LET V1 == Put(V, j, Get(V, i))
       IN  IF strchr(Quotes, Get(V1, i))
           THEN StrEncodeCopy(Put(V1, j - 1, BSL), i - 1, j - 2)
           ELSE StrEncodeCopy(V1, i - 1, j - 1)

SealStrEncode(V) ==
  IF Len(V) = 0 THEN V
  ELSE LET i == Len(V)
           j == StrEncodeCount(V, 0, 0)
       IN  IF j > i
           THEN StrEncodeCopy(V \o [k \in 1..(j - i) |-> NUL], i - 1, j - 1)
           ELSE V

(***************************************************************************)
(* SealXmlDecode(): convert &entity; to bytes, in place.                   *)
(***************************************************************************)
HexVal(c) == IF isdigit(c) THEN c - 48 ELSE IF isupper(c) THEN c - 65 + 10 ELSE c - 97 + 10

\* for( ; (i < ValueLen) && isxdigit(Value[i]); i++) n = n*16 + digit
RECURSIVE ScanHex(_, _, _)
ScanHex(V, i, n) ==
  IF i < Len(V) /\ isxdigit(Get(V, i)) THEN ScanHex(V, i + 1, n * 16 + HexVal(Get(V, i)))
  ELSE [i |-> i, n |-> n]

\* for( ; (i < ValueLen) && isdigit(Value[i]); i++) n = n*10 + digit
RECURSIVE ScanDec(_, _, _)
ScanDec(V, i, n) ==
  IF i < Len(V) /\ isdigit(Get(V, i)) THEN ScanDec(V, i + 1, n * 10 + (Get(V, i) - 48))
  ELSE [i |-> i, n |-> n]

\* The bytes of n, most significant first: four, three, two, one or none.
CodeBytes(n) ==
  IF n > 16777215 THEN << (n \div 16777216) % 256, (n \div 65536) % 256, (n \div 256) % 256, n % 256 >>
  ELSE IF n > 65535 THEN << (n \div 65536) % 256, (n \div 256) % 256, n % 256 >>
  ELSE IF n > 255 THEN << (n \div 256) % 256, n % 256 >>
  ELSE IF n > 0 THEN << n % 256 >>
  ELSE << >>

RECURSIVE PutAll(_, _, _)
PutAll(V, j, bs) == IF bs = << >> THEN V ELSE PutAll(Put(V, j, Head(bs)), j + 1, Tail(bs))

\* The first entities[e] whose code lies at Value+i, or 0.
EntityAt(V, i) ==
  LET hit == {e \in 1..Len(entities) :
                i + entities[e].len <= Len(V)
                /\ MatchLen(V, i, entities[e].code, entities[e].len)}
  IN  IF hit = {} THEN 0 ELSE CHOOSE e \in hit : \A f \in hit : e <= f

\* The numeric branches: the digits are scanned, i++ skips the semicolon,
\* the code's bytes are written at j with j++ each; then the for statement's
\* own i++, j++ follows as after every iteration.
XmlNumeric(V, j, sc) ==
  LET bs == CodeBytes(sc.n)
  IN  [V |-> PutAll(V, j, bs), i |-> sc.i + 1, j |-> j + Len(bs)]

XmlDecodeBody(V, i, j) ==
  LET V1 == IF i # j THEN Put(V, j, Get(V, i)) ELSE V
  IN  IF i + 5 <= Len(V1) /\ Match(V1, i, L_hex)
      THEN XmlNumeric(V1, j, ScanHex(V1, i + 3, 0))
      ELSE IF i + 4 <= Len(V1) /\ Match(V1, i, L_dec)
      THEN XmlNumeric(V1, j, ScanDec(V1, i + 2, 0))
      ELSE LET e == EntityAt(V1, i)
           IN  IF e # 0
               THEN [V |-> Put(V1, j, entities[e].c), i |-> i + entities[e].len - 1, j |-> j]
               ELSE [V |-> V1, i |-> i, j |-> j]

RECURSIVE XmlDecodeLoop(_, _, _)
XmlDecodeLoop(V, i, j) ==
  IF i >= Len(V) THEN [V |-> V, i |-> i, j |-> j]
  ELSE LET b == XmlDecodeBody(V, i, j) IN XmlDecodeLoop(b.V, b.i + 1, b.j + 1)

SealXmlDecode(V) ==
  IF Len(V) = 0 THEN V ELSE LET r == XmlDecodeLoop(V, 0, 0) IN SubSeq(r.V, 1, r.j)

\* if (j < i) { memset(Data->Value+j,0,i-j); }: the last index cleared, -1 when none.
Cleared(r) == IF r.j < r.i THEN r.i - 1 ELSE -1

\* The highest index of the value memory SealStrDecode reads or writes.
StrDecodeTouched(V) ==
  IF Len(V) = 0 THEN -1 ELSE Max(SealStrDecodeRun(V).hi, Cleared(SealStrDecodeRun(V)))

\* The same for SealXmlDecode: its loop reads up to the last byte, under the
\* length tests of lines 108, 148 and 186, and writes below what it has read.
XmlDecodeTouched(V) ==
  IF Len(V) = 0 THEN -1 ELSE Max(Len(V) - 1, Cleared(XmlDecodeLoop(V, 0, 0)))


(***************************************************************************)
(* The field store (seal.hpp).  A store is the list of its fields in      *)
(* insertion order; the NULL pointer is the empty list.  A field is       *)
(* [Field, Type, Value]; an 'I' field's Value is its array of size_t.      *)
(***************************************************************************)
\* SealSearch(): the position of the field named F, or 0 (NULL).
SealSearch(vf, F) ==
  IF \E k \in 1..Len(vf) : vf[k].Field = F
  THEN CHOOSE k \in 1..Len(vf) : vf[k].Field = F
  ELSE 0

SetField(vf, F, T, V) ==
  LET k == SealSearch(vf, F)
      f == [Field |-> F, Type |-> T, Value |-> V]
  IN  IF k = 0 THEN Append(vf, f) ELSE [vf EXCEPT ![k] = f]

\* SealSetTextLen(): set field F to the ValueLen bytes V, replacing or creating.
SealSetTextLen(vf, F, V) == SetField(vf, F, "c", V)

\* SealDel(): remove field F.
SealDel(vf, F) == SelectSeq(vf, LAMBDA f : f.Field # F)

\* SealGetIindex(): element Index of the size_t array F; 0 when absent.
SealGetIindex(vf, F, Index) ==
  LET k == SealSearch(vf, F)
  IN  IF k = 0 THEN 0
      ELSE IF Index < Len(vf[k].Value) THEN vf[k].Value[Index + 1] ELSE 0

\* SealSetIindex(): set element Index, growing the array and zero-filling the gap.
SealSetIindex(vf, F, Index, Value) ==
  LET k == SealSearch(vf, F)
      old == IF k = 0 THEN << >> ELSE vf[k].Value
      n == Max(Len(old), Index + 1)
  IN  SetField(vf, F, "I",
               [x \in 1..n |-> IF x = Index + 1 THEN Value
                               ELSE IF x <= Len(old) THEN old[x] ELSE 0])

\* SealCopy2(): copy vfhead1[Field1] into vfhead2[Field2]; nothing to copy when absent.
SealCopy2(vf2, F2, vf1, F1) ==
  LET k == SealSearch(vf1, F1)
  IN  IF k = 0 THEN vf2 ELSE SetField(vf2, F2, vf1[k].Type, vf1[k].Value)

\* The value of field F, << >> when absent.
ValueOf(vf, F) == LET k == SealSearch(vf, F) IN IF k = 0 THEN << >> ELSE vf[k].Value

FieldNames(vf) == {vf[k].Field : k \in 1..Len(vf)}

F_field == B("@field")
F_S == B("@S")
F_s == B("@s")
F_p == B("@p")
F_RecEnd == B("@RecEnd")
F_sflags == B("@sflags")
F_dnscachelast == B("@dnscachelast")
F_public == B("@public")
F_publicbin == B("@publicbin")

\* SealAddTextLen(): append the bytes V to field F, creating it when absent.
SealAddTextLen(vf, F, V) == SetField(vf, F, "c", ValueOf(vf, F) \o V)

(***************************************************************************)
(* SealXmlEncode(): encode any XML entities.  The first loop counts the   *)
(* room to allocate; j is advanced by the loop header and by the body, so *)
(* the count always exceeds the length and a new buffer is always built.  *)
(***************************************************************************)
L_digits == B("0123456789abcdef")
L_DIGITS == B("0123456789ABCDEF")
L_semi == B(";")

\* The first entities[e] with entities[e].c == c, or 0.
EntityOf(c) ==
  LET hit == {e \in 1..Len(entities) : entities[e].c = c}
  IN  IF hit = {} THEN 0 ELSE CHOOSE e \in hit : \A f \in hit : e <= f

\* for(i=j=0; i < ValueLen; i++,j++) { j++; ... }
RECURSIVE XmlEncodeCount(_, _, _)
XmlEncodeCount(V, i, j) ==
  IF i >= Len(V) THEN j
  ELSE LET c == Get(V, i)
           e == EntityOf(c)
           j1 == IF ~isprint(c) THEN j + 1 + 5
                 ELSE IF e # 0 THEN j + 1 + entities[e].len - 1
                 ELSE j + 1
       IN  XmlEncodeCount(V, i + 1, j1 + 1)

\* snprintf(Str+j, 7, "&#x%02x;", c & 0xff)
XmlHexCode(c) == L_hex \o <<L_digits[(c \div 16) + 1], L_digits[(c % 16) + 1]>> \o L_semi

\* memcpy(Str+j, entities[e].code, entities[e].len)
EntityBytes(e) == [k \in 1..entities[e].len |-> Get(entities[e].code, k - 1)]

\* The copy loop: what one byte of the value becomes in Str.
XmlEncodeByte(V, i) ==
  LET c == Get(V, i)
      e == EntityOf(c)
  IN  IF ~isprint(c) THEN XmlHexCode(c)
      ELSE IF e # 0 /\ i + entities[e].len <= Len(V) THEN EntityBytes(e)
      ELSE <<c>>

RECURSIVE XmlEncodeCopy(_, _)
XmlEncodeCopy(V, i) ==
  IF i >= Len(V) THEN << >> ELSE XmlEncodeByte(V, i) \o XmlEncodeCopy(V, i + 1)

SealXmlEncode(V) ==
  IF Len(V) = 0 THEN V
  ELSE IF XmlEncodeCount(V, 0, 0) > Len(V) THEN XmlEncodeCopy(V, 0)
  ELSE V

(***************************************************************************)
(* SealHexDecode(): convert hex to binary, in place.  c is an int that is *)
(* shifted and never cleared; only c & 0xff is stored, and that is the    *)
(* last two digits whatever the bits above have become, so the model      *)
(* keeps the low byte of c.  The result is [Value, Type].                  *)
(***************************************************************************)
RECURSIVE HexDecodeLoop(_, _, _, _, _)
HexDecodeLoop(V, i, j, c, bits) ==
  IF i >= Len(V) THEN [V |-> V, j |-> j, bits |-> bits]
  ELSE LET d == Get(V, i)
           c1 == (c * 16) % 256
           b1 == bits + 4
       IN  IF ~isxdigit(d) THEN [V |-> V, j |-> 0, bits |-> b1]
           ELSE LET c2 == IF isdigit(d) THEN c1 + (d - 48)
                          ELSE IF isupper(d) THEN c1 + (d - 65 + 10)
                          ELSE IF islower(d) THEN c1 + (d - 97 + 10)
                          ELSE c1
                IN  IF b1 >= 8 THEN HexDecodeLoop(Put(V, j, c2 % 256), i + 1, j + 1, c2, 0)
                    ELSE HexDecodeLoop(V, i + 1, j, c2, b1)

\* A decode that lets an odd trailing digit pass.
SealHexDecode_OddTail(V, T) ==
  IF Len(V) = 0 THEN [Value |-> V, Type |-> T]
  ELSE LET r == HexDecodeLoop(V, 0, 0, 0, 0)
       IN  [Value |-> SubSeq(r.V, 1, r.j), Type |-> "x"]

SealHexDecode(V, T) ==
  IF Len(V) = 0 THEN [Value |-> V, Type |-> T]
  ELSE LET r == HexDecodeLoop(V, 0, 0, 0, 0)
           j == IF r.bits # 0 THEN 0 ELSE r.j
       IN  [Value |-> SubSeq(r.V, 1, j), Type |-> "x"]

\* The highest index SealHexDecode reads or writes: the first byte that is
\* no digit, or the last byte.
HexDecodeTouched(V) ==
  LET bad == {k \in 0..(Len(V) - 1) : ~isxdigit(Get(V, k))}
  IN  IF bad = {} THEN Len(V) - 1 ELSE CHOOSE k \in bad : \A m \in bad : k <= m

(***************************************************************************)
(* SealHexEncode(): two digits per byte, appended to the field "bin" of a *)
(* scratch store whose value then replaces Data's.                         *)
(***************************************************************************)
F_bin == B("bin")

RECURSIVE HexEncodeLoop(_, _, _, _)
HexEncodeLoop(V, i, IsUpper, D) ==
  IF i >= Len(V) THEN D
  ELSE LET c == Get(V, i)
           tab == IF IsUpper THEN L_DIGITS ELSE L_digits
           d == <<tab[(c \div 16) + 1], tab[(c % 16) + 1]>>
       IN  HexEncodeLoop(V, i + 1, IsUpper, SealAddTextLen(D, F_bin, d))

SealHexEncode(V, T, IsUpper) ==
  IF Len(V) = 0 THEN [Value |-> V, Type |-> T]
  ELSE [Value |-> ValueOf(HexEncodeLoop(V, 0, IsUpper, << >>), F_bin), Type |-> "c"]



(***************************************************************************)
(* SealBase64Decode(): base64 to binary.  The value is padded with '=' to *)
(* a multiple of 4 and handed to the library (BIO_f_base64 with           *)
(* BIO_FLAGS_BASE64_NO_NL), whose output is gathered in D; D stays NULL   *)
(* when the library gives no byte.  The result is [fault, Value, Type].   *)
(***************************************************************************)
PAD == Ord("=")

\* while(Data->ValueLen % 4) { Data = SealAddC(Data,Data->Field,'='); }
RECURSIVE PadTo4(_)
PadTo4(V) == IF Len(V) % 4 = 0 THEN V ELSE PadTo4(Append(V, PAD))

\* The library: the value of a base64 character, '=' counting as 0; -1 for
\* a byte that is none.
B64Val(c) ==
  IF isupper(c) THEN c - 65
  ELSE IF islower(c) THEN c - 97 + 26
  ELSE IF isdigit(c) THEN c - 48 + 52
  ELSE IF c = Ord("+") THEN 62
  ELSE IF c = Ord("/") THEN 63
  ELSE IF c = PAD THEN 0
  ELSE -1

\* The three bytes of four characters.
B64Quad(V, k) ==
  LET n == B64Val(V[k]) * 262144 + B64Val(V[k + 1]) * 4096 + B64Val(V[k + 2]) * 64
             + B64Val(V[k + 3])
  IN  << n \div 65536, (n \div 256) % 256, n % 256 >>

RECURSIVE B64Quads(_, _)
B64Quads(V, k) == IF k > Len(V) THEN << >> ELSE B64Quad(V, k) \o B64Quads(V, k + 4)

\* The library on one line of whole quads: no byte when a character is not
\* base64; else three bytes a quad, less one when the text ends in '=' and
\* two when it ends in "==".
Base64Lib(V) ==
  IF \E k \in 1..Len(V) : B64Val(V[k]) < 0 THEN << >>
  ELSE LET all == B64Quads(V, 1)
           cut == IF V[Len(V)] # PAD THEN 0
                  ELSE IF V[Len(V) - 1] = PAD THEN 2 ELSE 1
       IN  SubSeq(all, 1, Len(all) - cut)

\* What reading D->Value and D->ValueLen through the NULL D can do: the
\* process is stopped by the fault, or the read yields whatever is there.
NullReads == {[fault |-> TRUE, Value |-> << >>, Type |-> "c"]}
               \cup {[fault |-> FALSE, Value |-> v, Type |-> "x"] : v \in {<< >>, <<NUL>>}}

SealBase64Decode(V, T) ==
  IF Len(V) = 0 THEN {[fault |-> FALSE, Value |-> V, Type |-> T]}
  ELSE IF Base64Lib(PadTo4(V)) = << >> THEN NullReads
  ELSE {[fault |-> FALSE, Value |-> Base64Lib(PadTo4(V)), Type |-> "x"]}

(***************************************************************************)
(* size_t.  A value of _MaReadData and _MaWriteData is the sequence of    *)
(* its 64 bits, the least significant first, so that values up to 2^56-1  *)
(* and the sentinel (size_t)(-1) keep their width.                         *)
(***************************************************************************)
SizeBits == 1..64

Bit(n, k) == (n \div (2 ^ k)) % 2
\* The size_t of a number below 2^31.
SizeT(n) == [k \in SizeBits |-> IF k <= 31 THEN Bit(n, k - 1) ELSE 0]
\* (size_t)(-1)
Invalid == [k \in SizeBits |-> 1]
ShiftL(x, n) == [k \in SizeBits |-> IF k - n >= 1 THEN x[k - n] ELSE 0]
ShiftR(x, n) == [k \in SizeBits |-> IF k + n <= 64 THEN x[k + n] ELSE 0]
BitOr(x, y) == [k \in SizeBits |-> IF x[k] = 1 \/ y[k] = 1 THEN 1 ELSE 0]
\* x & 0xFF, as a byte
LowByte(x) ==
  x[1] + 2 * x[2] + 4 * x[3] + 8 * x[4] + 16 * x[5] + 32 * x[6] + 64 * x[7] + 128 * x[8]
\* x >= y
SizeGE(x, y) ==
  \/ x = y
  \/ \E k \in SizeBits : x[k] = 1 /\ y[k] = 0 /\ \A m \in (k + 1)..64 : x[m] = y[m]
\* a & b on bytes
ByteAnd(a, b) ==
  LET bit(k) == IF Bit(a, k) = 1 /\ Bit(b, k) = 1 THEN 2 ^ k ELSE 0
  IN  bit(0) + bit(1) + bit(2) + bit(3) + bit(4) + bit(5) + bit(6) + bit(7)
\* a | b on bytes
ByteOr(a, b) ==
  LET bit(k) == IF Bit(a, k) = 1 \/ Bit(b, k) = 1 THEN 2 ^ k ELSE 0
  IN  bit(0) + bit(1) + bit(2) + bit(3) + bit(4) + bit(5) + bit(6) + bit(7)

(***************************************************************************)
(* _MaReadData(): read a variable-length value from mem at Offset.  The   *)
(* result is [Val, Offset]: the value returned and Offset[0] afterwards.  *)
(***************************************************************************)
\* for(b=0; (b < 8) && !(Dat & (1<<(7-b))); b++) ;
RECURSIVE LeadingZeros(_, _)
LeadingZeros(Dat, b) ==
  IF b < 8 /\ Bit(Dat, 7 - b) = 0 THEN LeadingZeros(Dat, b + 1) ELSE b

\* while((b >= 0) && (Offset[0] < memsize)) { Val <<= 8; Val |= mem[Offset[0]]; b--; Offset[0]++; }
\* The loop with a seven-bit shift of the value read so far.
RECURSIVE MaReadLoop_Shift7(_, _, _, _)
MaReadLoop_Shift7(mem, Val, b, Off) ==
  IF b >= 0 /\ Off < Len(mem)
  THEN MaReadLoop_Shift7(mem, BitOr(ShiftL(Val, 7), SizeT(mem[Off + 1])), b - 1, Off + 1)
  ELSE [Val |-> Val, Offset |-> Off]

RECURSIVE MaReadLoop(_, _, _, _)
MaReadLoop(mem, Val, b, Off) ==
  IF b >= 0 /\ Off < Len(mem)
  THEN MaReadLoop(mem, BitOr(ShiftL(Val, 8), SizeT(mem[Off + 1])), b - 1, Off + 1)
  ELSE [Val |-> Val, Offset |-> Off]

_MaReadData(mem, Off) ==
  IF Off >= Len(mem) THEN [Val |-> Invalid, Offset |-> Off]
  ELSE LET Dat == mem[Off + 1]
       IN  IF Dat = 0 THEN [Val |-> Invalid, Offset |-> Off]
           ELSE LET b == LeadingZeros(Dat, 0)
                    Val == SizeT(Dat % (2 ^ (7 - b)))
                IN  MaReadLoop(mem, Val, b - 1, Off + 1)

(***************************************************************************)
(* _MaWriteData(): write a variable-length value into field Field of Rec. *)
(***************************************************************************)
\* SealAlloc(): field F of Len zero bytes and type T, replacing or creating.
SealAlloc(vf, F, Len0, T) == SetField(vf, F, T, [k \in 1..Len0 |-> 0])

\* while((num_bytes < 8) && (Value >= MaxValue)) { MaxValue = (MaxValue<<7) | 0xff; num_bytes++; }
\* The loop that grows only past MaxValue, with MaxValue = 2^(7n) - 1.
RECURSIVE MaNumBytes_Past(_, _, _)
MaNumBytes_Past(Value, num_bytes, MaxValue) ==
  IF num_bytes < 8 /\ SizeGE(Value, MaxValue) /\ Value # MaxValue
  THEN MaNumBytes_Past(Value, num_bytes + 1, BitOr(ShiftL(MaxValue, 7), SizeT(255)))
  ELSE num_bytes

RECURSIVE MaNumBytes(_, _, _)
MaNumBytes(Value, num_bytes, MaxValue) ==
  IF num_bytes < 8 /\ SizeGE(Value, MaxValue)
  THEN MaNumBytes(Value, num_bytes + 1, BitOr(ShiftL(MaxValue, 7), SizeT(255)))
  ELSE num_bytes

\* for(i=1; i < num_bytes; i++) { v->Value[num_bytes - i] = Value & 0xFF; Value >>= 8; mask >>= 1; }
RECURSIVE MaWriteLoop(_, _, _, _, _)
MaWriteLoop(V, num_bytes, i, Value, mask) ==
  IF i < num_bytes
  THEN MaWriteLoop(Put(V, num_bytes - i, LowByte(Value)), num_bytes, i + 1,
                   ShiftR(Value, 8), mask \div 2)
  ELSE Put(V, 0, ByteOr(Get(V, 0), ByteAnd(LowByte(Value), mask)))

_MaWriteData(Rec, Field, Value) ==
  LET num_bytes == MaNumBytes(Value, 1, SizeT(127))
      r1 == SealAlloc(Rec, Field, num_bytes, "x")
      k == SealSearch(r1, Field)
      V0 == Put(r1[k].Value, 0, 2 ^ (8 - num_bytes))
  IN  [r1 EXCEPT ![k].Value = MaWriteLoop(V0, num_bytes, 1, Value, 255)]

(***************************************************************************)
(* SealParse(TextLen, Text, Offset, Args).                                 *)
(* The locals are the record p: State, Quote, i, fs, fe, vs, ve, IsBad,   *)
(* Rec.  Beside them p carries what the run has done so far:              *)
(*   hi      the highest index of Text read (-1: none)                     *)
(*   wrap    the index of the '<' of the wrapper matched last (-1: none)   *)
(*   log     one entry per value stored into the present Rec: its name,   *)
(*           raw span, quote mode and wrapper; emptied where Rec is freed  *)
(*   warned  the names reported as redefined                               *)
(*   closed  how Done was reached: "s1" ('>' or "/>" in State 1), "s3"    *)
(*           (after a value), "eob" (the loop ran out), "no" (not yet)     *)
(* Text[TextLen] and beyond is memory the caller did not supply: a read   *)
(* there yields `past`, a byte the model chooses freely.                   *)
(***************************************************************************)
TextAt(T, k, past) == IF k < Len(T) THEN T[k + 1] ELSE past

p0 ==
  [State |-> 0, Quote |-> 0, i |-> 0, fs |-> 0, fe |-> 0, vs |-> 0, ve |-> 0,
   IsBad |-> FALSE, Rec |-> << >>,
   hi |-> -1, wrap |-> -1, log |-> << >>, warned |-> {}, closed |-> "no"]

\* if (IsBad) { SealFree(Rec); Rec=NULL; IsBad=false; State=0; }
ResetIfBad(p) ==
  IF p.IsBad
  THEN [p EXCEPT !.Rec = << >>, !.IsBad = FALSE, !.State = 0, !.log = << >>]
  ELSE p

\* State 0: looking for "<seal" or "<xmp:seal" followed by '>' or ' '.
State0(T, p) ==
  LET i == p.i
      seal == i + 6 < Len(T) /\ Match(T, i, L_seal) /\ strchr(L_gtsp, T[i + 6])
      xmp == i + 10 < Len(T) /\ Match(T, i, L_xmpseal) /\ strchr(L_gtsp, T[i + 10])
      h == IF T[i + 1] # LT THEN i
           ELSE IF i + 10 < Len(T) /\ ~seal THEN i + 9
           ELSE IF i + 6 < Len(T) THEN i + 5 ELSE i
  IN  IF T[i + 1] # LT THEN [p EXCEPT !.hi = Max(p.hi, h)]
      ELSE IF seal THEN [p EXCEPT !.i = i + 5, !.State = 1, !.wrap = i, !.hi = Max(p.hi, h)]
      ELSE IF xmp THEN [p EXCEPT !.i = i + 9, !.State = 1, !.wrap = i, !.hi = Max(p.hi, h)]
      ELSE [p EXCEPT !.IsBad = TRUE, !.hi = Max(p.hi, h)]

\* while((i < TextLen) && isalnum(Text[i])) { i++; }
RECURSIVE ScanName(_, _)
ScanName(T, i) == IF i < Len(T) /\ isalnum(T[i + 1]) THEN ScanName(T, i + 1) ELSE i

\* State 1 that steps two bytes back at a bad attribute.
State1_BackTwo(T, p, past) ==
  LET i == p.i
      c == T[i + 1]
  IN  IF isspace(c) THEN [p EXCEPT !.hi = Max(p.hi, i)]
      ELSE IF c = GT THEN [p EXCEPT !.closed = "s1", !.hi = Max(p.hi, i)]
      ELSE IF i + 1 < Len(T) /\ Match(T, i, L_close)
      THEN [p EXCEPT !.closed = "s1", !.hi = Max(p.hi, i + 1)]
      ELSE LET i1 == IF c = LT THEN i - 1 ELSE i
               bad == c = LT \/ ~isalpha(T[i1 + 1])
               i2 == ScanName(T, i1)
               isEq == TextAt(T, i2, past) = EQ
           IN  [p EXCEPT !.IsBad = bad, !.fs = i1, !.fe = i2,
                         !.i = IF isEq THEN i2 ELSE i2 - 2,
                         !.State = IF isEq THEN 2 ELSE 0,
                         !.hi = Max(p.hi, i2)]

\* State 1 that takes any byte as the start of a name.
State1_AnyStart(T, p, past) ==
  LET i == p.i
      c == T[i + 1]
  IN  IF isspace(c) THEN [p EXCEPT !.hi = Max(p.hi, i)]
      ELSE IF c = GT THEN [p EXCEPT !.closed = "s1", !.hi = Max(p.hi, i)]
      ELSE IF i + 1 < Len(T) /\ Match(T, i, L_close)
      THEN [p EXCEPT !.closed = "s1", !.hi = Max(p.hi, i + 1)]
      ELSE LET i1 == IF c = LT THEN i - 1 ELSE i
               bad == c = LT
               i2 == ScanName(T, i1)
               isEq == TextAt(T, i2, past) = EQ
           IN  [p EXCEPT !.IsBad = bad, !.fs = i1, !.fe = i2,
                         !.i = IF isEq THEN i2 ELSE i2 - 1,
                         !.State = IF isEq THEN 2 ELSE 0,
                         !.hi = Max(p.hi, i2)]

\* State 1: looking for attribute (field=).
State1(T, p, past) ==
  LET i == p.i
      c == T[i + 1]
  IN  IF isspace(c) THEN [p EXCEPT !.hi = Max(p.hi, i)]
      ELSE IF c = GT THEN [p EXCEPT !.closed = "s1", !.hi = Max(p.hi, i)]
      ELSE IF i + 1 < Len(T) /\ Match(T, i, L_close)
      THEN [p EXCEPT !.closed = "s1", !.hi = Max(p.hi, i + 1)]
      ELSE LET i1 == IF c = LT THEN i - 1 ELSE i
               bad == c = LT \/ ~isalpha(T[i1 + 1])
               i2 == ScanName(T, i1)
               isEq == TextAt(T, i2, past) = EQ
           IN  [p EXCEPT !.IsBad = bad, !.fs = i1, !.fe = i2,
                         !.i = IF isEq THEN i2 ELSE i2 - 1,
                         !.State = IF isEq THEN 2 ELSE 0,
                         !.hi = Max(p.hi, i2)]

\* Scan for the end of the string: the for loop of State 2.
RECURSIVE ScanValue(_, _, _)
ScanValue(T, i, Quote) ==
  IF i >= Len(T) THEN [found |-> FALSE, ve |-> 0, i |-> i]
  ELSE LET c == T[i + 1]
       IN  IF c = BSL THEN ScanValue(T, i + 2, Quote)
           ELSE IF Quote = 0 /\ strchr(L_unq, c) THEN [found |-> TRUE, ve |-> i, i |-> i]
           ELSE IF Quote # 1 /\ c = Quote THEN [found |-> TRUE, ve |-> i, i |-> i + 1]
           ELSE IF Quote = 1 /\ i + 6 < Len(T) /\ Match(T, i, L_quot)
           THEN [found |-> TRUE, ve |-> i, i |-> i + 6]
           ELSE ScanValue(T, i + 1, Quote)

\* The signature position stored without the caller's Offset.
SignaturePosition_NoOffset(Rec, vs, ve, Offset, Args) ==
  LET r1 == SealSetIindex(Rec, F_S, 0, vs)
      r2 == SealSetIindex(r1, F_S, 1, ve)
      r3 == SealSetIindex(r2, F_s, 0, vs)
      r4 == SealSetIindex(r3, F_s, 1, ve)
  IN  IF Args = << >> THEN r4
      ELSE LET a1 == SealCopy2(r4, F_p, Args, F_s)
               a2 == SealSetIindex(a1, F_s, 2, SealGetIindex(Args, F_s, 2) + 1)
               a3 == SealCopy2(a2, F_sflags, Args, F_sflags)
               a4 == SealCopy2(a3, F_dnscachelast, Args, F_dnscachelast)
               a5 == SealCopy2(a4, F_public, Args, F_public)
           IN  SealCopy2(a5, F_publicbin, Args, F_publicbin)

\* Check for the signature position and save it.
SignaturePosition(Rec, vs, ve, Offset, Args) ==
  LET r1 == SealSetIindex(Rec, F_S, 0, vs)
      r2 == SealSetIindex(r1, F_S, 1, ve)
      r3 == SealSetIindex(r2, F_s, 0, Offset + vs)
      r4 == SealSetIindex(r3, F_s, 1, Offset + ve)
  IN  IF Args = << >> THEN r4
      ELSE LET a1 == SealCopy2(r4, F_p, Args, F_s)
               a2 == SealSetIindex(a1, F_s, 2, SealGetIindex(Args, F_s, 2) + 1)
               a3 == SealCopy2(a2, F_sflags, Args, F_sflags)
               a4 == SealCopy2(a3, F_dnscachelast, Args, F_dnscachelast)
               a5 == SealCopy2(a4, F_public, Args, F_public)
           IN  SealCopy2(a5, F_publicbin, Args, F_publicbin)

\* Decoding that leaves an unquoted value as it is.
DecodeValue_QuotedOnly(Quote, V) ==
  IF Quote = 0 THEN V ELSE IF Quote # 1 THEN SealStrDecode(V) ELSE SealXmlDecode(V)

\* if (Quote != 1) SealStrDecode(); else if (Quote == 1) SealXmlDecode();
DecodeValue(Quote, V) == IF Quote # 1 THEN SealStrDecode(V) ELSE SealXmlDecode(V)

\* A store that keeps the value a name already has.
StoreValue_KeepFirst(Rec, Str, Quote, raw) ==
  IF SealSearch(Rec, Str) # 0 THEN Rec
  ELSE SealSetTextLen(Rec, Str, IF Quote # 1 THEN SealStrDecode(raw) ELSE SealXmlDecode(raw))

\* Store the value: SealSetTextLen(Rec,Str,ve-vs,Text+vs), then decode it in place.
StoreValue(Rec, Str, Quote, raw) == SealSetTextLen(Rec, Str, DecodeValue(Quote, raw))

\* while((i < TextLen) && (Text[i] != '>')) { i++; }
RECURSIVE SkipToGT(_, _)
SkipToGT(T, i) == IF i < Len(T) /\ T[i + 1] # GT THEN SkipToGT(T, i + 1) ELSE i

\* done: skip to the '>' and, if (Text[i]=='>'), past it.
CloseRecord(T, i, past) ==
  LET i3 == SkipToGT(T, i) IN IF TextAt(T, i3, past) = GT THEN i3 + 1 ELSE i3

\* State 3: end of attribute (value); p holds Quote, vs, ve and i after the value.
State3(T, p, Offset, Args, past) ==
  LET Str == SubSeq(T, p.fs + 1, p.fe)
      raw == SubSeq(T, p.vs + 1, p.ve)
      r1 == SealSetTextLen(p.Rec, F_field, Str)
      dup == SealSearch(r1, Str) # 0
      r2 == IF Str = L_s THEN SignaturePosition(r1, p.vs, p.ve, Offset, Args) ELSE r1
      r3 == SealDel(StoreValue(r2, Str, p.Quote, raw), F_field)
      c == TextAt(T, p.i, past)
      q == [p EXCEPT !.Rec = r3,
                     !.warned = IF dup THEN p.warned \cup {Str} ELSE p.warned,
                     !.log = Append(p.log, [name |-> Str, vs |-> p.vs, ve |-> p.ve,
                                            Quote |-> p.Quote, wrap |-> p.wrap]),
                     !.hi = Max(p.hi, p.i)]
  IN  IF isspace(c) THEN [q EXCEPT !.State = 1]
      ELSE IF strchr(L_end, c)
      THEN [q EXCEPT !.i = CloseRecord(T, p.i, past), !.closed = "s3",
                     !.hi = Max(q.hi, SkipToGT(T, p.i))]
      ELSE [q EXCEPT !.IsBad = TRUE]

\* State 2: looking for attribute (value).
State2(T, p, Offset, Args, past) ==
  LET i == p.i
      c == T[i + 1]
      q0 == strchr(Quotes, c)
      i1 == IF q0 THEN i + 1 ELSE i
      ent == i1 + 6 < Len(T) /\ Match(T, i1, L_quot)
      Quote == IF ent THEN 1 ELSE IF q0 THEN c ELSE 0
      vs == IF ent THEN i1 + 6 ELSE i1
      sc == ScanValue(T, vs, Quote)
      h == Max(p.hi, IF sc.found THEN sc.i - 1 ELSE Len(T) - 1)
  IN  IF sc.found
      THEN State3(T, [p EXCEPT !.Quote = Quote, !.vs = vs, !.ve = sc.ve, !.i = sc.i,
                               !.State = 3, !.hi = h], Offset, Args, past)
      ELSE [p EXCEPT !.Quote = Quote, !.vs = vs, !.i = sc.i - 1, !.IsBad = TRUE, !.hi = h]

\* Done: if (Rec) set @RecEnd to i; return(Rec).
Done(p) == IF p.Rec # << >> THEN SealSetIindex(p.Rec, F_RecEnd, 0, p.i) ELSE << >>

\* The end of one pass of the for loop, n the locals after the state's code:
\* goto Done, or i++.
PassEnd(n) == IF n.closed # "no" THEN n ELSE [n EXCEPT !.i = n.i + 1]

\* One pass of the for loop of SealParse from the locals q.
SealParsePass(T, q, Offset, Args, past) ==
  PassEnd(IF q.IsBad \/ q.State = 0 THEN State0(T, ResetIfBad(q))
          ELSE IF q.State = 1 THEN State1(T, q, past)
          ELSE State2(T, q, Offset, Args, past))

\* The for loop: one pass after the other until a goto Done or i >= TextLen.
RECURSIVE SealParseLoop(_, _, _, _, _)
SealParseLoop(T, q, Offset, Args, past) ==
  IF q.closed # "no" THEN q
  ELSE IF q.i >= Len(T) THEN [q EXCEPT !.closed = "eob"]
  ELSE SealParseLoop(T, SealParsePass(T, q, Offset, Args, past), Offset, Args, past)

\* What a call of SealParse() gives, q the locals at Done: Rec is the store
\* returned (<< >>: NULL), hi the highest index of Text read (-1: none).
ParseResult(q) == [Rec |-> Done(q), hi |-> q.hi]

SealParse(T, Offset, Args, past) ==
  IF Len(T) < 10 THEN [Rec |-> << >>, hi |-> -1]
  ELSE ParseResult(SealParseLoop(T, p0, Offset, Args, past))

(***************************************************************************)
(* _Matroskawalk(Args, Mmap).                                              *)
(***************************************************************************)
F_pubkeyfile == B("@pubkeyfile")
F_options == B("options")

\* if (iTag == 0x5345414C)
SealTag == SizeT(1397047628)

\* A size_t that is below 2^31, as a number.
SizeFits(x) == \A k \in 32..64 : x[k] = 0
RECURSIVE SizeNat(_)
SizeNat(x) == IF x = SizeT(0) THEN 0 ELSE x[1] + 2 * SizeNat(ShiftR(x, 1))

\* SealVerify(Rec, Mmap): the verifier is not part of these sources.  It
\* returns the record, as it is or with the flags it has set for the signature.
SealVerify(Rec) == {Rec, SealSetTextLen(Rec, F_sflags, B("F"))}

\* An advance that can be zero.
RecAdvance_Zero(RecEnd) == IF RecEnd <= 0 THEN 1 ELSE 0

\* if (RecEnd <= 0) { RecEnd=1; }
RecAdvance(RecEnd) == IF RecEnd <= 0 THEN 1 ELSE RecEnd

\* The state retained without the signature's position.
RetainState_NoS(Args, Rec) ==
  LET a1 == SealCopy2(Args, F_p, Rec, F_p)
      a3 == SealCopy2(a1, F_dnscachelast, Rec, F_dnscachelast)
      a4 == SealCopy2(a3, F_public, Rec, F_public)
      a5 == SealCopy2(a4, F_publicbin, Rec, F_publicbin)
  IN  SealCopy2(a5, F_sflags, Rec, F_sflags)

\* Retain state: the fields of Rec kept in Args after a record.
RetainState(Args, Rec) ==
  LET a1 == SealCopy2(Args, F_p, Rec, F_p)
      a2 == SealCopy2(a1, F_s, Rec, F_s)
      a3 == SealCopy2(a2, F_dnscachelast, Rec, F_dnscachelast)
      a4 == SealCopy2(a3, F_public, Rec, F_public)
      a5 == SealCopy2(a4, F_publicbin, Rec, F_publicbin)
  IN  SealCopy2(a5, F_sflags, Rec, F_sflags)

\* The head with the overflow test on the length alone.
ChunkHead_LenOnly(mem, Offset) ==
  LET t == _MaReadData(mem, Offset)
      l == _MaReadData(mem, t.Offset)
  IN  [iTag |-> t.Val, iLen |-> l.Val, Offset |-> l.Offset, hi |-> l.Offset - 1,
       stop |-> IF t.Val = Invalid \/ l.Val = Invalid THEN "invalid"
                ELSE IF ~SizeFits(l.Val) \/ SizeNat(l.Val) > Len(mem)
                THEN "overflow" ELSE "no"]

\* The head of one chunk at Offset: the tag and the length, each by
\* _MaReadData.  stop says why the walk breaks here ("no": it goes on).
ChunkHead(mem, Offset) ==
  LET t == _MaReadData(mem, Offset)
      l == _MaReadData(mem, t.Offset)
      hi == IF t.Val = Invalid THEN Offset
            ELSE IF l.Val = Invalid THEN Max(t.Offset - 1, IF t.Offset < Len(mem) THEN t.Offset ELSE 0)
            ELSE l.Offset - 1
  IN  [iTag |-> t.Val, iLen |-> l.Val, Offset |-> l.Offset, hi |-> hi,
       stop |-> IF t.Val = Invalid \/ l.Val = Invalid THEN "invalid"
                ELSE IF ~SizeFits(l.Val) \/ l.Offset + SizeNat(l.Val) > Len(mem)
                THEN "overflow" ELSE "no"]


(***************************************************************************)
(* The buffers SealParse is run on: a lead holding the wrapper's start,   *)
(* up to MaxAttrs attributes separated by one space, and a closer.  The   *)
(* leads and the first attributes are those of SealParseTest; the others  *)
(* are malformed in ways the parser has a branch for.                      *)
(***************************************************************************)
MaxAttrs == 2

Leads ==
  << B("abc <seal "), B("<xmp:seal>"), B("<seal>"), B("<se <seal "),
     B("<seal @s=9 <seal ") >>

\* name eq open raw close
AttrFrags ==
  << [name |-> "a", eq |-> "=", open |-> "", raw |-> "1", close |-> ""],
     [name |-> "b", eq |-> "=", open |-> "", raw |-> "\\1", close |-> ""],
     [name |-> "s", eq |-> "=", open |-> "'", raw |-> "N\\'T", close |-> "'"],
     [name |-> "s", eq |-> "=", open |-> "\"", raw |-> "z", close |-> "\""],
     [name |-> "s", eq |-> "=", open |-> "&quot;", raw |-> "&amp;&#65;b", close |-> "&quot;"],
     [name |-> "c", eq |-> "=", open |-> "'", raw |-> "&quot;q", close |-> "'"],
     [name |-> "d", eq |-> "", open |-> "", raw |-> "", close |-> ""],
     [name |-> "1", eq |-> "=", open |-> "", raw |-> "x", close |-> ""] >>

Closers ==
  << L_close, B(">"), B(" />"), B(" >"), << >>, B(" "), B("/> def"), B("<"), B("x"),
     <<NUL>>, B(" d <seal c=\"z\"/>"), B(" @s=9 <seal a1=2/>") >>

AttrBytes(a) == B(a.name) \o B(a.eq) \o B(a.open) \o B(a.raw) \o B(a.close)

AttrTab == [k \in 1..Len(AttrFrags) |-> AttrBytes(AttrFrags[k])]

\* The attributes as, joined by single spaces.
RECURSIVE Join(_)
Join(as) ==
  IF as = << >> THEN << >>
  ELSE IF Len(as) = 1 THEN AttrTab[as[1]]
  ELSE AttrTab[as[1]] \o <<SPC>> \o Join(Tail(as))

BufferOf(in) == Leads[in.lead] \o Join(in.attrs) \o Closers[in.closer]

Inputs ==
  [lead : 1..Len(Leads),
   attrs : UNION {[1..k -> 1..Len(AttrFrags)] : k \in 0..MaxAttrs},
   closer : 1..Len(Closers)]

\* The callers: SealParseTest (Offset 0, no Args) and a chunk walker that has
\* already seen one signature and passes its context store.
PrevArgs ==
  << [Field |-> F_s, Type |-> "I", Value |-> <<3, 5, 1>>],
     [Field |-> F_sflags, Type |-> "c", Value |-> B("F")] >>

Calls == { [Offset |-> 0, Args |-> << >>], [Offset |-> 7, Args |-> PrevArgs] }

\* What follows the buffer in memory.
PastBytes == {NUL, GT, EQ, SPC, Ord("x")}

(***************************************************************************)
(* The state machine.                                                      *)
(***************************************************************************)
VARIABLES
  input,    \* the lead, attributes and closer Text was built from
  Text,     \* SealParse's Text; TextLen is Len(Text)
  Offset,   \* SealParse's Offset
  Args,     \* SealParse's Args
  p,        \* SealParse's locals
  pc,       \* "start", "loop", "done" ("idle": SealParse is not run)
  ret,      \* the store SealParse returned (<< >>: NULL)
  op,       \* the codec exercised on Data: "xmldecode", "str" ("none": no codec)
  Data,     \* a field's Value (ValueLen is Len(Data))
  orig,     \* the Value the codec run started from
  want,     \* the bytes orig stands for
  cpc,      \* "new", "encoded", "done" ("idle": no codec is run)
  Type,     \* the field's Type
  w         \* the locals of the Matroska functions, see w0

parseVars == <<input, Text, Offset, Args, p, pc, ret>>
codecVars == <<op, Data, orig, want, cpc, Type>>
vars == <<input, Text, Offset, Args, p, pc, ret, op, Data, orig, want, cpc, Type, w>>

NoCodec ==
  /\ op = "none" /\ Data = << >> /\ orig = << >> /\ want = << >> /\ cpc = "idle"
  /\ Type = "c"

\* No Matroska function is run.
w0 == [wpc |-> "idle"]
NoWalk == w = w0

Init ==
  /\ input \in Inputs
  /\ Text = BufferOf(input)
  /\ \E c \in Calls : Offset = c.Offset /\ Args = c.Args
  /\ p = p0
  /\ pc = "start"
  /\ ret = << >>
  /\ NoCodec
  /\ NoWalk

\* if (!Text || (TextLen < 10)) { return(NULL); }
Enter ==
  /\ pc = "start"
  /\ pc' = IF Len(Text) < 10 THEN "done" ELSE "loop"
  /\ UNCHANGED <<input, Text, Offset, Args, p, ret>> /\ UNCHANGED codecVars /\ UNCHANGED w

\* The byte past the buffer matters only to a pass that reads it.
PastChoices(q) == IF q.hi >= Len(Text) THEN PastBytes ELSE {NUL}

\* The end of one pass of the for loop: goto Done, or i++.
Pass(q) ==
  /\ p' = IF q.closed # "no" THEN q ELSE [q EXCEPT !.i = q.i + 1]
  /\ pc' = IF q.closed # "no" THEN "done" ELSE "loop"
  /\ ret' = IF q.closed # "no" THEN Done(q) ELSE ret
  /\ UNCHANGED <<input, Text, Offset, Args>> /\ UNCHANGED codecVars /\ UNCHANGED w

Iter0 ==
  /\ pc = "loop" /\ p.i < Len(Text)
  /\ p.IsBad \/ p.State = 0
  /\ Pass(State0(Text, ResetIfBad(p)))

Iter1 ==
  /\ pc = "loop" /\ p.i < Len(Text)
  /\ ~p.IsBad /\ p.State = 1
  /\ \E past \in PastChoices(State1(Text, p, NUL)) : Pass(State1(Text, p, past))

Iter2 ==
  /\ pc = "loop" /\ p.i < Len(Text)
  /\ ~p.IsBad /\ p.State = 2
  /\ \E past \in PastChoices(State2(Text, p, Offset, Args, NUL)) :
        Pass(State2(Text, p, Offset, Args, past))

\* The for loop has run out: i >= TextLen.
LoopExit ==
  /\ pc = "loop" /\ p.i >= Len(Text)
  /\ p' = [p EXCEPT !.closed = "eob"]
  /\ pc' = "done"
  /\ ret' = Done(p)
  /\ UNCHANGED <<input, Text, Offset, Args>> /\ UNCHANGED codecVars /\ UNCHANGED w

Next == Enter \/ Iter0 \/ Iter1 \/ Iter2 \/ LoopExit

Spec == Init /\ [][Next]_vars

(***************************************************************************)
(* The codecs run on their own, as SealParseTest runs them on a field:    *)
(* SealXmlDecode on a value, and SealStrEncode followed by SealStrDecode.  *)
(* An entity-coded value is a sequence of up to MaxToks tokens, each with *)
(* the bytes it stands for; an escape-coded value is up to MaxLen bytes.   *)
(***************************************************************************)
MaxToks == 3
MaxLen == 3

XmlToks ==
  << [code |-> B("&amp;"), is |-> <<AMP>>],
     [code |-> B("&lt;"), is |-> <<LT>>],
     [code |-> B("&#65;"), is |-> B("A")],
     [code |-> B("&#x44;"), is |-> B("D")],
     [code |-> B("b"), is |-> B("b")],
     [code |-> B("cc"), is |-> B("cc")],
     [code |-> <<NUL>>, is |-> <<NUL>>] >>

RECURSIVE TokCode(_)
TokCode(ts) == IF ts = << >> THEN << >> ELSE XmlToks[Head(ts)].code \o TokCode(Tail(ts))

RECURSIVE TokIs(_)
TokIs(ts) == IF ts = << >> THEN << >> ELSE XmlToks[Head(ts)].is \o TokIs(Tail(ts))

\* The info value of SealParseTest and what it is to decode to.
TestInfo ==
  [code |-> B("Yeah&amp;&#65;bb&#x44;cc&#x09;dd"), is |-> B("Yeah&AbbDcc") \o <<9>> \o B("dd")]

XmlInputs ==
  {[code |-> TokCode(ts), is |-> TokIs(ts)] :
     ts \in UNION {[1..k -> 1..Len(XmlToks)] : k \in 1..MaxToks}} \cup {TestInfo}

StrBytes == {Ord("a"), SQ, DQ, BSL}

StrInputs == UNION {[1..k -> StrBytes] : k \in 1..MaxLen}

NoParse ==
  /\ input = [lead |-> 1, attrs |-> << >>, closer |-> 1]
  /\ Text = << >> /\ Offset = 0 /\ Args = << >> /\ p = p0 /\ pc = "idle" /\ ret = << >>

\* Values for the XML round trip: plain and non-printable bytes, the
\* characters that have an entity, and text that reads as an entity.
XmlPieces ==
  << B("a"), B("<"), B("&"), <<DQ>>, <<9>>, <<200>>, B("&amp;"), B("&#65") >>

RECURSIVE Pieces(_)
Pieces(ts) == IF ts = << >> THEN << >> ELSE XmlPieces[Head(ts)] \o Pieces(Tail(ts))

XmlValues == {Pieces(ts) : ts \in UNION {[1..k -> 1..Len(XmlPieces)] : k \in 1..MaxToks}}

\* Values for SealHexDecode: digits of both cases and bytes that are none.
HexChars == {Ord("0"), Ord("9"), Ord("a"), Ord("F"), Ord("g"), SPC}
LongHex == B("0123456789abcdefABCDEF")
HexValues ==
  UNION {[1..k -> HexChars] : k \in 0..(MaxLen + 1)}
    \cup {LongHex, Tail(LongHex), LongHex \o B("x0")}

\* Values for SealHexEncode.
BinBytes == {NUL, 10, 171, 255}
BinValues == UNION {[1..k -> BinBytes] : k \in 1..MaxLen}

\* Values for SealBase64Decode: base64 characters, padding and a byte that
\* is neither, and two longer texts.
B64Chars == {Ord("Q"), Ord("J"), PAD, Ord("!")}
B64Values ==
  UNION {[1..k -> B64Chars] : k \in 0..(MaxLen + 1)} \cup {B("QUJDQQ"), B("QUJD!!!!")}

CodecInit ==
  /\ NoParse /\ NoWalk /\ Type = "c"
  /\ cpc = "new"
  /\ \/ \E x \in XmlInputs : op = "xmldecode" /\ orig = x.code /\ want = x.is
     \/ \E v \in StrInputs : op = "str" /\ orig = v /\ want = v
     \/ \E v \in XmlValues : op = "xml" /\ orig = v /\ want = v
     \/ \E v \in HexValues : op = "hexdecode" /\ orig = v /\ want = v
     \/ \E v \in BinValues : op \in {"hexupper", "hexlower"} /\ orig = v /\ want = v
     \/ \E v \in B64Values : op = "b64decode" /\ orig = v /\ want = v
  /\ Data = orig

XmlDecode ==
  /\ op = "xmldecode" /\ cpc = "new"
  /\ Data' = SealXmlDecode(Data)
  /\ cpc' = "done"
  /\ UNCHANGED <<op, orig, want, Type, w>> /\ UNCHANGED parseVars

StrEncode ==
  /\ op = "str" /\ cpc = "new"
  /\ Data' = SealStrEncode(Data)
  /\ cpc' = "encoded"
  /\ UNCHANGED <<op, orig, want, Type, w>> /\ UNCHANGED parseVars

StrDecode ==
  /\ op = "str" /\ cpc = "encoded"
  /\ Data' = SealStrDecode(Data)
  /\ cpc' = "done"
  /\ UNCHANGED <<op, orig, want, Type, w>> /\ UNCHANGED parseVars

XmlEncode ==
  /\ op = "xml" /\ cpc = "new"
  /\ Data' = SealXmlEncode(Data)
  /\ cpc' = "encoded"
  /\ UNCHANGED <<op, orig, want, Type, w>> /\ UNCHANGED parseVars

XmlDecodeBack ==
  /\ op = "xml" /\ cpc = "encoded"
  /\ Data' = SealXmlDecode(Data)
  /\ cpc' = "done"
  /\ UNCHANGED <<op, orig, want, Type, w>> /\ UNCHANGED parseVars

HexDecode ==
  /\ op = "hexdecode" /\ cpc = "new"
  /\ Data' = SealHexDecode(Data, Type).Value
  /\ Type' = SealHexDecode(Data, Type).Type
  /\ cpc' = "done"
  /\ UNCHANGED <<op, orig, want, w>> /\ UNCHANGED parseVars

HexEncode ==
  /\ op \in {"hexupper", "hexlower"} /\ cpc = "new"
  /\ Data' = SealHexEncode(Data, Type, op = "hexupper").Value
  /\ Type' = SealHexEncode(Data, Type, op = "hexupper").Type
  /\ cpc' = "encoded"
  /\ UNCHANGED <<op, orig, want, w>> /\ UNCHANGED parseVars

HexDecodeBack ==
  /\ op \in {"hexupper", "hexlower"} /\ cpc = "encoded"
  /\ Data' = SealHexDecode(Data, Type).Value
  /\ Type' = SealHexDecode(Data, Type).Type
  /\ cpc' = "done"
  /\ UNCHANGED <<op, orig, want, w>> /\ UNCHANGED parseVars

\* cpc becomes "fault" when the call does not return.
Base64Decode ==
  /\ op = "b64decode" /\ cpc = "new"
  /\ \E r \in SealBase64Decode(Data, Type) :
       /\ Data' = r.Value /\ Type' = r.Type
       /\ cpc' = IF r.fault THEN "fault" ELSE "done"
  /\ UNCHANGED <<op, orig, want, w>> /\ UNCHANGED parseVars

CodecNext ==
  \/ XmlDecode \/ StrEncode \/ StrDecode
  \/ XmlEncode \/ XmlDecodeBack \/ HexDecode \/ HexEncode \/ HexDecodeBack
  \/ Base64Decode

CodecSpec == CodecInit /\ [][CodecNext]_vars

(***************************************************************************)
(* The variable-length integers of _MaWriteData and _MaReadData: each run *)
(* either writes one value into the field @BLOCK and reads it back from   *)
(* offset 0 of the bytes written, or reads at one offset of one buffer.   *)
(***************************************************************************)
F_BLOCK == B("@BLOCK")

\* Eight bytes carry seven value bits each.
ValueBits == 56
MaxMem == 3

\* 2^k - 1
Ones(k) == [i \in SizeBits |-> IF i <= k THEN 1 ELSE 0]
\* The values written: 2^k - 1, 2^k and 2^k - 2 around every power of two up
\* to 2^56 - 1, and two mixed patterns.
MaValues ==
  LET PowerOfTwo(k) == [i \in SizeBits |-> IF i = k + 1 THEN 1 ELSE 0]
      OnesLessOne(k) == [i \in SizeBits |-> IF i <= k /\ i > 1 THEN 1 ELSE 0]
  IN  {Ones(k) : k \in 0..ValueBits} \cup {PowerOfTwo(k) : k \in 0..(ValueBits - 1)}
        \cup {OnesLessOne(k) : k \in 2..ValueBits}
        \cup {SizeT(1397047628), BitOr(ShiftL(SizeT(1397047628), 24), SizeT(4660))}

\* The buffers read: every class of leading byte (00, 01, 40, 81, FF), ended
\* early or not.
MaMems == UNION {[1..k -> {0, 1, 64, 129, 255}] : k \in 0..MaxMem}

MaInit ==
  /\ NoParse /\ NoCodec
  /\ \/ \E v \in MaValues : w = [wpc |-> "write", Value |-> v]
     \/ \E m \in MaMems : \E o \in 0..Len(m) : w = [wpc |-> "read", mem |-> m, Offset |-> o]

MaWrite ==
  /\ w.wpc = "write"
  /\ w' = [wpc |-> "written", Value |-> w.Value,
           mem |-> ValueOf(_MaWriteData(<< >>, F_BLOCK, w.Value), F_BLOCK)]
  /\ UNCHANGED parseVars /\ UNCHANGED codecVars

MaReadBack ==
  /\ w.wpc = "written"
  /\ LET r == _MaReadData(w.mem, 0)
     IN  w' = [wpc |-> "readback", Value |-> w.Value, mem |-> w.mem,
               Val |-> r.Val, Offset |-> r.Offset]
  /\ UNCHANGED parseVars /\ UNCHANGED codecVars

MaRead ==
  /\ w.wpc = "read"
  /\ LET r == _MaReadData(w.mem, w.Offset)
     IN  w' = [wpc |-> "done", mem |-> w.mem, Offset0 |-> w.Offset,
               Val |-> r.Val, Offset |-> r.Offset]
  /\ UNCHANGED parseVars /\ UNCHANGED codecVars

MaNext == MaWrite \/ MaReadBack \/ MaRead

MaSpec == MaInit /\ [][MaNext]_vars

(***************************************************************************)
(* The files _Matroskawalk is run on.  Seal_Matroska calls it on a file   *)
(* Seal_isMatroska accepts: at least 16 bytes that begin 1A 45 DF A3.     *)
(* A file is that header chunk, up to two further chunks, and a tail.     *)
(***************************************************************************)
MaxRecs == 2

\* The EBML header chunk: tag 1A 45 DF A3, length 11, DocType "matroska".
EbmlHead == <<26, 69, 223, 163, 139, 66, 130, 136>> \o B("matroska")

\* A chunk: the tag bytes, the length as _MaWriteData writes it, the payload.
ChunkOf(tag, payload) ==
  tag \o ValueOf(_MaWriteData(<< >>, F_BLOCK, SizeT(Len(payload))), F_BLOCK) \o payload

\* The tag 0x5345414C as _MaWriteData writes it, and the one-byte tag EC.
TagSeal == <<8, 83, 69, 65, 76>>
TagVoid == <<236>>

\* Well-formed records; the first two carry a signature.
Records ==
  << B("<seal s=\"a\\\"b\"/>"), B("<seal a=1 s='cd' />"), B("<seal a=1 b=22>"),
     B("<seal c='&quot;q'/>") >>
HasSig == {1, 2}
\* The record whose '-quoted value begins with &quot;.
Unfound == {4}

RECURSIVE RecJoin(_)
RecJoin(rs) == IF rs = << >> THEN << >> ELSE Records[Head(rs)] \o RecJoin(Tail(rs))

\* A payload of a SEAL chunk: records back to back, or something else.
RecLists == UNION {[1..k -> 1..Len(Records)] : k \in 1..MaxRecs}
Junk == {B("short"), B("<seal s=\"ab\""), B("no record in these bytes")}

\* The chunks in first and in second place; recs names the records of a SEAL
\* chunk made of records.  The second chunks have also a three-byte tag that
\* begins with '>' (3E).
Chunk(tag, payload, rs) ==
  [bytes |-> ChunkOf(tag, payload), payload |-> payload, recs |-> rs, seal |-> tag = TagSeal]
NoChunk == [bytes |-> << >>, payload |-> << >>, recs |-> << >>, seal |-> FALSE]

FirstChunks ==
  {NoChunk} \cup {Chunk(TagSeal, RecJoin(rs), rs) : rs \in RecLists}
    \cup {Chunk(TagSeal, j, << >>) : j \in Junk}
    \cup {Chunk(TagVoid, Records[1], << >>)}
SecondChunks ==
  {NoChunk, Chunk(TagSeal, Records[2], <<2>>), Chunk(TagVoid, << >>, << >>),
   Chunk(<<62, 1, 2>>, Records[1], << >>)}

\* The tails: nothing; a zero tag; a tag with no length; a zero length byte;
\* a length larger than what is left; a SEAL chunk cut short; a tag cut
\* short; a length cut short.
Tails ==
  << << >>, <<0>>, <<236>>, <<236, 0>>, <<236, 138, 1, 2, 3>>,
     TagSeal \o <<129 + Len(Records[1])>> \o Records[1], <<8, 83>>, <<236, 64>>,
     <<236, 1, 255>> >>

WalkFiles ==
  [first : FirstChunks, second : SecondChunks, tail : 1..Len(Tails)]

FileOf(f) == EbmlHead \o f.first.bytes \o f.second.bytes \o Tails[f.tail]

\* The context store of the caller: the options, and with or without the
\* state of a signature seen before.
WalkArgs ==
  { << [Field |-> F_options, Type |-> "c", Value |-> B("append")] >>,
    << [Field |-> F_options, Type |-> "c", Value |-> B("append")],
       [Field |-> F_pubkeyfile, Type |-> "c", Value |-> B("k")] >> \o PrevArgs }

(***************************************************************************)
(* _Matroskawalk, one action per pass of its loops.  w holds its locals   *)
(* (mem, Args, Offset, iLen, ChunkOffset) and, beside them:               *)
(*   file     what mem was built from, Args0 the Args of the call          *)
(*   calls    the calls of SealVerify in order: the store given, the      *)
(*            store it returned, and where in mem the record was parsed   *)
(*   parses   the spans of mem handed to SealParse, in order              *)
(*   hi       the highest index of mem read (-1: none)                     *)
(*   stop     why the walk ended: "invalid", "overflow", "end" ("no": not  *)
(*            yet)                                                         *)
(*   chunks, recs  the passes of the outer and of the inner loop so far   *)
(***************************************************************************)
WalkInit ==
  /\ NoParse /\ NoCodec
  /\ \E f \in WalkFiles : \E a \in WalkArgs :
       w = [wpc |-> "outer", file |-> f, mem |-> FileOf(f), Args0 |-> a, Args |-> a,
            Offset |-> 0, iLen |-> 0, ChunkOffset |-> 0, calls |-> << >>,
            parses |-> << >>, hi |-> -1, stop |-> "no", chunks |-> 0, recs |-> 0]

\* One pass of the outer loop up to the chunk's payload.
WalkChunk ==
  /\ w.wpc = "outer" /\ w.Offset < Len(w.mem)
  /\ LET h == ChunkHead(w.mem, w.Offset)
         q == [w EXCEPT !.hi = Max(w.hi, h.hi), !.chunks = w.chunks + 1]
     IN  w' = IF h.stop # "no" THEN [q EXCEPT !.wpc = "done", !.stop = h.stop]
              ELSE IF h.iTag = SealTag
              THEN [q EXCEPT !.wpc = "inner", !.Offset = h.Offset,
                             !.iLen = SizeNat(h.iLen), !.ChunkOffset = 0]
              ELSE [q EXCEPT !.Offset = h.Offset + SizeNat(h.iLen)]
  /\ UNCHANGED parseVars /\ UNCHANGED codecVars

\* One pass of the inner loop: a record is parsed, verified and its state
\* retained; or no record is found and the chunk is left.
WalkRecord ==
  /\ w.wpc = "inner" /\ w.ChunkOffset < w.iLen
  /\ LET at == w.Offset + w.ChunkOffset
         end == w.Offset + w.iLen
         T == SubSeq(w.mem, at + 1, end)
         pasts == IF end < Len(w.mem) THEN {w.mem[end + 1]} ELSE PastBytes
     IN  \E past \in pasts : \E r \in {SealParse(T, at, w.Args, past)} :
           LET q == [w EXCEPT !.hi = Max(w.hi, IF r.hi < 0 THEN -1 ELSE at + r.hi),
                              !.parses = Append(w.parses, [at |-> at, end |-> end,
                                                            found |-> r.Rec # << >>]),
                              !.recs = w.recs + 1]
           IN  IF r.Rec = << >>
               THEN w' = [q EXCEPT !.wpc = "outer", !.Offset = end]
               ELSE \E given \in {SealCopy2(r.Rec, F_pubkeyfile, w.Args, F_pubkeyfile)} :
                    \E Rec \in SealVerify(given) :
                      LET RecEnd0 == RecAdvance(SealGetIindex(Rec, F_RecEnd, 0))
                      IN  w' = [q EXCEPT !.ChunkOffset = w.ChunkOffset + RecEnd0,
                                         !.Args = RetainState(w.Args, Rec),
                                         !.calls = Append(w.calls, [at |-> at, given |-> given,
                                                                    Rec |-> Rec])]
  /\ UNCHANGED parseVars /\ UNCHANGED codecVars

\* The inner loop has run out: Offset+=iLen.
WalkChunkEnd ==
  /\ w.wpc = "inner" /\ w.ChunkOffset >= w.iLen
  /\ w' = [w EXCEPT !.wpc = "outer", !.Offset = w.Offset + w.iLen]
  /\ UNCHANGED parseVars /\ UNCHANGED codecVars

\* The outer loop has run out: return(Args).
WalkReturn ==
  /\ w.wpc = "outer" /\ w.Offset >= Len(w.mem)
  /\ w' = [w EXCEPT !.wpc = "done", !.stop = "end"]
  /\ UNCHANGED parseVars /\ UNCHANGED codecVars

WalkNext == WalkChunk \/ WalkRecord \/ WalkChunkEnd \/ WalkReturn

WalkSpec == WalkInit /\ [][WalkNext]_vars

(***************************************************************************)
(* Seal_Matroskasign(Args, MmapIn).  The store calls it makes beyond those *)
(* above are modelled from their declarations; SealRecord, SealInsert and  *)
(* SealSign are the external renderer and signer.                          *)
(***************************************************************************)
F_FilenameOut == B("@FilenameOut")
F_b == B("b")
F_record == B("@record")
F_iLen == B("@@iLen")
L_append == B("append")

\* SealGetCindex(): byte Index of field F; 0 when absent or past its end.
SealGetCindex(vf, F, Index) ==
  LET V == ValueOf(vf, F) IN IF Index < Len(V) THEN V[Index + 1] ELSE 0

\* SealGetSize(): value length in bytes; 0 when absent.
SealGetSize(vf, F) == Len(ValueOf(vf, F))

\* SealAddBin(): append the ValueLen bytes V to field F, creating it when absent.
SealAddBin(vf, F, V) == SetField(vf, F, "b", ValueOf(vf, F) \o V)

\* SealIncIindex(): add Value to element Index of the size_t array F.
SealIncIindex(vf, F, Index, Value) ==
  SealSetIindex(vf, F, Index, SealGetIindex(vf, F, Index) + Value)

\* SealSetType(): set the type of field F.
SealSetType(vf, F, T) ==
  LET k == SealSearch(vf, F) IN IF k = 0 THEN vf ELSE [vf EXCEPT ![k].Type = T]

\* strstr(haystack, needle) != NULL
strstr(h, n) == \E k \in 0..(Len(h) - Len(n)) : SubSeq(h, k + 1, k + Len(n)) = n

\* SealRecord(): the renderer puts the record's text into @record and the
\* place of the signature within it into @s[0] and @s[1].
SealRecord(vf, rec) ==
  SetField(SealSetIindex(SealSetIindex(vf, F_s, 0, rec.s0), F_s, 1, rec.s1),
           F_record, "c", rec.text)

\* if (SealGetCindex(Args,"@sflags",0)=='F') "P" else "F"
RangeStart(vf) == IF SealGetCindex(vf, F_sflags, 0) = Ord("F") THEN B("P") ELSE B("F")

\* The end of the range that never leaves room for appending.
RangeEnd_Final(Opt) == B(",s~f")

\* if (!Opt || !strstr(Opt,"append")) ",s~f" else ",s~s+3"
RangeEnd(Opt) == IF Opt = << >> \/ ~strstr(Opt, L_append) THEN B(",s~f") ELSE B(",s~s+3")

\* Set the range: lines 201 to 232.
SignRange(vf) ==
  SealAddTextLen(
    SealAddTextLen(SealSetTextLen(SealDel(vf, F_b), F_b, RangeStart(SealDel(vf, F_b))),
                   F_b, B("~S")),
    F_b, RangeEnd(ValueOf(vf, F_options)))

\* Create the block, tag and length: lines 238 to 242.
SignBlockHead(vf) ==
  SealDel(SealAddBin(_MaWriteData(vf, F_iLen, SizeT(SealGetSize(vf, F_record))),
                     F_BLOCK,
                     ValueOf(_MaWriteData(vf, F_iLen, SizeT(SealGetSize(vf, F_record))), F_iLen)),
          F_iLen)

\* The body that moves the start of the signature and not its end.
SignBlockBody_StartOnly(vf) ==
  SealSetType(
    SealAddBin(SealIncIindex(vf, F_s, 0, SealGetSize(vf, F_BLOCK)),
               F_BLOCK, ValueOf(vf, F_record)),
    F_BLOCK, "x")

\* Make @s relative to the block and add the record: lines 244 to 249.
SignBlockBody(vf) ==
  SealSetType(
    SealAddBin(SealIncIindex(SealIncIindex(vf, F_s, 0, SealGetSize(vf, F_BLOCK)),
                             F_s, 1, SealGetSize(vf, F_BLOCK)),
               F_BLOCK, ValueOf(vf, F_record)),
    F_BLOCK, "x")

\* Not signing: no output file name, or no input.
NotSigning(vf, mapped) == ValueOf(vf, F_FilenameOut) = << >> \/ ~mapped

Seal_Matroskasign(vf, mapped, rec) ==
  IF NotSigning(vf, mapped) THEN vf
  ELSE SignBlockBody(SignBlockHead(_MaWriteData(SealRecord(SignRange(vf), rec), F_BLOCK, SealTag)))

(***************************************************************************)
(* The calls of Seal_Matroskasign: the Args left by the walk, with or      *)
(* without an output file, the options, the flags of the last record       *)
(* verified and a range left by the caller; the record the renderer gives. *)
(***************************************************************************)
OptField(F, V) == [Field |-> F, Type |-> "c", Value |-> V]
OptChoices(F, Vs) == {<< >>} \cup {<< OptField(F, V) >> : V \in Vs}
SignArgs ==
  { a \o o \o f \o b \o <<[Field |-> F_s, Type |-> "I", Value |-> <<0, 0, n>>]>> :
      a \in OptChoices(F_FilenameOut, {B("o")}),
      o \in OptChoices(F_options, {B("append"), B("x,append"), B("appen"), B("Append,v")}),
      f \in OptChoices(F_sflags, {B("F"), B("f"), B("Ff"), B("fF")}),
      b \in OptChoices(F_b, {B("P~S,s~s+3"), B("x")}),
      n \in {0, 2} }
SignRecords ==
  { [text |-> B("<seal b=\"\" s=\"") \o [k \in 1..n |-> Ord("a")] \o B("\"/>"),
     s0 |-> 14, s1 |-> 14 + n] : n \in {4, 109, 110} }

SignInit ==
  /\ NoParse /\ NoCodec
  /\ \E a \in SignArgs : \E m \in {-1, 0, 16} :
       w = [wpc |-> "sign", Args0 |-> a, Args |-> a, mapped |-> m >= 0, memsize |-> m,
            rec |-> << >>, at |-> -1]

\* The call, up to SealInsert at the end of the input and SealSign.
SignCall ==
  /\ w.wpc = "sign"
  /\ \E rec \in SignRecords :
       w' = [w EXCEPT !.wpc = "signed",
                      !.Args = Seal_Matroskasign(w.Args, w.mapped, rec),
                      !.rec = IF NotSigning(w.Args, w.mapped) THEN << >> ELSE rec.text,
                      !.at = IF NotSigning(w.Args, w.mapped) THEN -1 ELSE w.memsize]
  /\ UNCHANGED parseVars /\ UNCHANGED codecVars

SignNext == SignCall

SignSpec == SignInit /\ [][SignNext]_vars



(***************************************************************************)
(* What the properties below speak of.                                     *)
(***************************************************************************)
\* Backslash-unescape as the specification words it: every pair \X is X.
RECURSIVE Collapse(_)
Collapse(v) ==
  IF v = << >> THEN << >>
  ELSE IF Head(v) = BSL /\ Len(v) >= 2 THEN <<v[2]>> \o Collapse(SubSeq(v, 3, Len(v)))
  ELSE <<Head(v)>> \o Collapse(Tail(v))

\* The raw bytes of a logged value, and the entry that stored name n last.
RawOf(e) == SubSeq(Text, e.vs + 1, e.ve)
Logged(n) == {k \in 1..Len(p.log) : p.log[k].name = n}
LastLogged(n) == p.log[CHOOSE k \in Logged(n) : \A m \in Logged(n) : m <= k]
LoggedNames == {p.log[k].name : k \in 1..Len(p.log)}

Returned == pc = "done" /\ ret # << >>
RecEnd == SealGetIindex(ret, F_RecEnd, 0)

\* Where attribute k of the input lies in the buffer, by construction.
RECURSIVE AttrStart(_, _)
AttrStart(in, k) ==
  IF k = 1 THEN Len(Leads[in.lead])
  ELSE AttrStart(in, k - 1) + Len(AttrTab[in.attrs[k - 1]]) + 1

Frag(in, k) == AttrFrags[in.attrs[k]]
RawStart(in, k) ==
  AttrStart(in, k) + Len(Frag(in, k).name) + Len(Frag(in, k).eq) + Len(Frag(in, k).open)
RawEnd(in, k) == RawStart(in, k) + Len(Frag(in, k).raw)
RawTab == [k \in 1..Len(AttrFrags) |-> B(AttrFrags[k].raw)]
NameTab == [k \in 1..Len(AttrFrags) |-> B(AttrFrags[k].name)]

\* A record as the specification writes it: <seal n1=v1 n2='v2' n3="v3" .../>
\* after bytes without '<', the values unquoted or quoted by ' or ".
PlainAttrs == {1, 2, 3, 4, 6}
WellFormed(in) ==
  /\ in.lead = 1
  /\ in.attrs # << >>
  /\ \A k \in 1..Len(in.attrs) : in.attrs[k] \in PlainAttrs
  /\ in.closer \in {1, 7}

IsLastOfName(in, k) ==
  \A m \in (k + 1)..Len(in.attrs) : Frag(in, m).name # Frag(in, k).name

FieldCount(vf, F) == Cardinality({k \in 1..Len(vf) : vf[k].Field = F})

(***************************************************************************)
(* C1: SealParse only ever reads Text[k] with k < TextLen.                 *)
(***************************************************************************)
C1_ReadsInBounds == p.hi < Len(Text)

(***************************************************************************)
(* C2: every field of a returned record was stored while tokenizing the   *)
(* one wrapper that was matched last; nothing of an abandoned wrapper     *)
(* survives.                                                               *)
(***************************************************************************)
C2_SingleWrapper ==
  Returned => \A k \in 1..Len(p.log) : p.log[k].wrap = p.wrap

(***************************************************************************)
(* C3: when the loop runs out of buffer (no wrapper matched, or the       *)
(* record not closed), SealParse returns NULL.                             *)
(***************************************************************************)
C3_NullAtEndOfBuffer ==
  (pc = "done" /\ p.closed = "eob") => ret = << >>

(***************************************************************************)
(* C4: a well-formed record yields exactly one field per attribute name,  *)
(* and each quoted value is the bytes between its quotes, unescaped.       *)
(***************************************************************************)
C4_WellFormedRecord ==
  (pc = "done" /\ WellFormed(input)) =>
    \A k \in 1..Len(input.attrs) :
      /\ FieldCount(ret, NameTab[input.attrs[k]]) = 1
      /\ (Frag(input, k).open # "" /\ IsLastOfName(input, k)) =>
           ValueOf(ret, NameTab[input.attrs[k]]) = Collapse(RawTab[input.attrs[k]])

(***************************************************************************)
(* C5 as amended: the value stored for a name is its raw bytes            *)
(* backslash-unescaped when the scan ran in ', " or unquoted mode, and    *)
(* entity-decoded when it ran in &quot; mode.                              *)
(***************************************************************************)
C5_DecodeByQuoteMode ==
  \A n \in LoggedNames :
    LET e == LastLogged(n)
    IN  ValueOf(p.Rec, n) = IF e.Quote = 1 THEN SealXmlDecode(RawOf(e)) ELSE Collapse(RawOf(e))

C5_Witness ==
  /\ Returned
  /\ \E n \in LoggedNames :
       LastLogged(n).Quote = 0 /\ ValueOf(ret, n) # RawOf(LastLogged(n))
  /\ \E n \in LoggedNames : LastLogged(n).Quote = SQ

\* C5 as claimed: an unquoted value is stored byte-for-byte.
C5_UnquotedVerbatim ==
  \A n \in LoggedNames :
    LET e == LastLogged(n)
    IN  ValueOf(p.Rec, n) = IF e.Quote = 1 THEN SealXmlDecode(RawOf(e))
                            ELSE IF e.Quote = 0 THEN RawOf(e)
                            ELSE Collapse(RawOf(e))

(***************************************************************************)
(* C6: in a returned record that has an s field, @S is the span of the    *)
(* raw value of an s attribute of the buffer (delimiters excluded), @s is *)
(* that span plus Offset, and the stored s is that occurrence's value.     *)
(***************************************************************************)
C6_SignatureOffsets ==
  (Returned /\ SealSearch(ret, L_s) # 0) =>
    \E k \in 1..Len(input.attrs) :
      /\ Frag(input, k).name = "s"
      /\ ValueOf(ret, F_S) = <<RawStart(input, k), RawEnd(input, k)>>
      /\ SubSeq(ValueOf(ret, F_s), 1, 2)
           = <<Offset + RawStart(input, k), Offset + RawEnd(input, k)>>
      /\ ValueOf(ret, L_s) = IF Frag(input, k).open = "&quot;"
                             THEN SealXmlDecode(RawTab[input.attrs[k]])
                             ELSE Collapse(RawTab[input.attrs[k]])

C6_Witness ==
  /\ Returned /\ Offset # 0
  /\ Len(p.log) = 2 /\ Cardinality(Logged(L_s)) = 2
  /\ RawOf(p.log[1]) # RawOf(p.log[2])
  /\ ValueOf(ret, F_S)[1] = p.log[2].vs

AfterValue(e) == IF e.Quote = 0 THEN e.ve ELSE IF e.Quote = 1 THEN e.ve + 6 ELSE e.ve + 1
LastEntry == p.log[Len(p.log)]
HasGT(from) == \E k \in from..(Len(Text) - 1) : Text[k + 1] = GT

(***************************************************************************)
(* C7: when the wrapper is closed by '>' or "/>", right after the last    *)
(* value or after white space, @RecEnd is the index just after that '>'.  *)
(***************************************************************************)
C7_RecEndAfterGT ==
  (Returned /\ (p.closed = "s1" \/ (p.closed = "s3" /\ HasGT(AfterValue(LastEntry))))) =>
    RecEnd >= 1 /\ Text[RecEnd] = GT

(***************************************************************************)
(* C8: an &quot;-quoted value is stored with every entity replaced by its *)
(* byte and every other byte kept; the info value of SealParseTest        *)
(* decodes to Yeah&AbbDcc<09>dd.                                           *)
(***************************************************************************)
C8_EntityDecode ==
  (op = "xmldecode" /\ cpc = "done") => Data = want

(***************************************************************************)
(* C9: a record with a repeated attribute name is returned, the name is   *)
(* reported as redefined, the store holds one field of that name and its  *)
(* value is the later occurrence's.                                        *)
(***************************************************************************)
GoodAttrs == {1, 2, 3, 4, 5}
Repeats(in) ==
  /\ in.attrs # << >>
  /\ \A k \in 1..Len(in.attrs) : in.attrs[k] \in GoodAttrs
  /\ in.closer \in {1, 2, 3, 4, 7}
  /\ \E k, m \in 1..Len(in.attrs) : k < m /\ Frag(in, k).name = Frag(in, m).name

C9_DuplicateLastWins ==
  /\ (pc = "done" /\ Repeats(input)) =>
       /\ ret # << >>
       /\ \E n \in LoggedNames : Cardinality(Logged(n)) >= 2
  /\ Returned =>
       \A n \in LoggedNames :
         Cardinality(Logged(n)) >= 2 =>
           /\ n \in p.warned
           /\ FieldCount(ret, n) = 1
           /\ ValueOf(ret, n) = DecodeValue(LastLogged(n).Quote, RawOf(LastLogged(n)))

C9_Witness ==
  /\ Returned
  /\ Len(p.log) = 2 /\ Cardinality(Logged(L_s)) = 2
  /\ L_s \in p.warned
  /\ ValueOf(ret, L_s) # DecodeValue(p.log[1].Quote, RawOf(p.log[1]))

(***************************************************************************)
(* C10: SealStrEncode followed by SealStrDecode gives back the original   *)
(* bytes of every non-empty value without a NUL.                           *)
(***************************************************************************)
C10_StrRoundTrip ==
  (op = "str" /\ cpc = "done") => Data = orig

(***************************************************************************)
(* C11: SealXmlEncode followed by SealXmlDecode gives back the original   *)
(* bytes and length of every non-empty value without a NUL.                *)
(***************************************************************************)
C11_XmlRoundTrip ==
  (op = "xml" /\ cpc = "done") => Data = orig

(***************************************************************************)
(* C12: SealHexDecode leaves ValueLen 0 and Type 'x' when the value has   *)
(* an odd length or a byte that is no hex digit; otherwise it leaves half *)
(* as many bytes, byte k being the value of digits 2k and 2k+1 in either  *)
(* case; and SealHexEncode followed by SealHexDecode gives back the       *)
(* original bytes.                                                         *)
(***************************************************************************)
DigitValue(c) == CHOOSE n \in 0..15 : L_DIGITS[n + 1] = c \/ L_digits[n + 1] = c
IsHexText(v) ==
  \A k \in 1..Len(v) : \E n \in 1..16 : L_DIGITS[n] = v[k] \/ L_digits[n] = v[k]

C12_HexAllOrNothing ==
  /\ (op = "hexdecode" /\ cpc = "done") =>
       IF Len(orig) % 2 = 1 \/ ~IsHexText(orig)
       THEN Data = << >> /\ Type = "x"
       ELSE /\ Len(Data) = Len(orig) \div 2
            /\ \A k \in 1..Len(Data) :
                 Data[k] = 16 * DigitValue(orig[2 * k - 1]) + DigitValue(orig[2 * k])
  /\ (op \in {"hexupper", "hexlower"} /\ cpc = "done") => Data = orig

C12_Witness ==
  /\ op = "hexdecode" /\ cpc = "done"
  /\ Len(orig) = 4 /\ IsHexText(SubSeq(orig, 1, 3)) /\ ~IsHexText(orig)
  /\ Data = << >> /\ Type = "x"

\* C13: reading at offset 0 the bytes _MaWriteData wrote for a value in
\* [0, 2^56 - 1] returns that value and advances the offset by the number of
\* bytes written.
C13_EbmlRoundTrip ==
  w.wpc = "readback" => w.Val = w.Value /\ w.Offset = Len(w.mem)

\* An eight-byte value with its top bit set has been written and read back.
C13_Witness ==
  w.wpc = "readback" /\ w.Value[ValueBits] = 1 /\ Len(w.mem) = 8 /\ w.Val = w.Value

\* The number of bytes the value needs when n bytes hold every value up to 2^(7n) - 1.
MinBytes(v) == CHOOSE n \in 1..8 : /\ \A k \in (7 * n + 1)..64 : v[k] = 0
                                   /\ \A m \in 1..(n - 1) : \E k \in (7 * m + 1)..64 : v[k] = 1

BytesBelowOnes(v) ==
  CHOOSE n \in 1..8 :
    /\ n = 8 \/ (~SizeGE(v, Ones(7 * n)))
    /\ \A m \in 1..(n - 1) : SizeGE(v, Ones(7 * m))

Announced(mem, o) == LeadingZeros(mem[o + 1], 0) + 1

\* C15: _MaReadData returns (size_t)(-1) when the offset is at or past the
\* end, when the leading byte is zero, and when the announced length would
\* read past the end of the buffer; no value is assembled from fewer bytes.
C15_FaultOnShortRead ==
  (w.wpc = "done" /\ (\/ w.Offset0 >= Len(w.mem)
                      \/ w.mem[w.Offset0 + 1] = 0
                      \/ w.Offset0 + Announced(w.mem, w.Offset0) > Len(w.mem)))
    => w.Val = Invalid

(***************************************************************************)
(* What a walk is expected to do with the file it was given.               *)
(***************************************************************************)
\* The records of the file's SEAL chunks, in file order.
FileRecs(f) == f.first.recs \o f.second.recs
\* Every SEAL chunk of the file is made of well-formed records.
RecordChunks(f) == f.first.seal => f.first.recs # << >>
\* None of them is the record SealParse does not return.
Findable(f) == \A k \in 1..Len(FileRecs(f)) : FileRecs(f)[k] \notin Unfound
\* The calls of SealVerify are the parses that found a record, in order.
Forwarded ==
  LET found == SelectSeq(w.parses, LAMBDA x : x.found)
  IN  /\ Len(w.calls) = Len(found)
      /\ \A k \in 1..Len(found) : w.calls[k].at = found[k].at
\* The tails that are a chunk with an invalid tag or length or a length
\* larger than what is left.
BadTails == {2, 3, 4, 5, 6, 7, 9}

\* The attributes of each of Records, decoded, and the raw s values.
RecFields ==
  << << [Field |-> B("s"), Value |-> B("a\"b")] >>,
     << [Field |-> B("a"), Value |-> B("1")], [Field |-> B("s"), Value |-> B("cd")] >>,
     << [Field |-> B("a"), Value |-> B("1")], [Field |-> B("b"), Value |-> B("22")] >>,
     << [Field |-> B("c"), Value |-> B("&quot;q")] >> >>
RecRaw == << B("a\\\"b"), B("cd"), << >>, << >> >>

\* The fields of a store that are not the parser's own, as name and value.
Plain(vf) ==
  LET fs == SelectSeq(vf, LAMBDA f : f.Field[1] # Ord("@"))
  IN  [k \in 1..Len(fs) |-> [Field |-> fs[k].Field, Value |-> fs[k].Value]]

\* The calls of SealVerify are one per record of the file, in order, each
\* given the attributes of its record.
OncePerRecord ==
  /\ Len(w.calls) = Len(FileRecs(w.file))
  /\ \A k \in 1..Len(w.calls) : Plain(w.calls[k].given) = RecFields[FileRecs(w.file)[k]]

\* The state retained from the records.
Retained == {F_p, F_s, F_dnscachelast, F_public, F_publicbin, F_sflags}
\* Args holds, for each retained field, the value of the last record
\* verified that has it, and everything else as the caller passed it.
Threaded ==
  /\ \A F \in Retained :
       LET ks == {k \in 1..Len(w.calls) : SealSearch(w.calls[k].Rec, F) # 0}
       IN  IF ks = {} THEN ValueOf(w.Args, F) = ValueOf(w.Args0, F)
           ELSE ValueOf(w.Args, F) = ValueOf(w.calls[CHOOSE k \in ks : \A m \in ks : m <= k].Rec, F)
  /\ \A k \in 1..Len(w.Args0) :
       w.Args0[k].Field \notin Retained => w.Args[k] = w.Args0[k]

\* C16: when the walk meets a chunk whose length exceeds the bytes left, or
\* whose tag or length is invalid, it stops; it has read no byte at an index
\* >= memsize, no chunk reaching past the end is ever entered, every record
\* found in the SEAL chunks before has been given to the verifier (every
\* record of those chunks, when SealParse returns them all), and the Args
\* returned hold the state threaded from them.
C16_StopKeepsRecords ==
  /\ w.wpc = "inner" => w.Offset + w.iLen <= Len(w.mem)
  /\ (w.wpc = "done" /\ w.file.tail \in BadTails) =>
       /\ w.stop \in {"invalid", "overflow"}
       /\ w.hi < Len(w.mem)
       /\ Forwarded
       /\ (RecordChunks(w.file) /\ Findable(w.file)) => OncePerRecord
       /\ Threaded

\* A walk stopped by the SEAL chunk cut short, after three records.
C16_Witness ==
  /\ w.wpc = "done" /\ w.file.tail = 6 /\ w.stop = "overflow"
  /\ Len(w.calls) = 3 /\ ValueOf(w.Args, F_s) = ValueOf(w.calls[3].Rec, F_s)

\* C17: each pass of the outer loop strictly increases Offset and each pass
\* of the inner loop strictly increases ChunkOffset, so that the walk makes
\* at most memsize passes of each loop.
C17_WalkProgress ==
  [][/\ (w.wpc = "outer" /\ w'.wpc # "done") => w'.Offset > w.Offset
     /\ (w.wpc = "inner" /\ w'.wpc = "inner") => w'.ChunkOffset > w.ChunkOffset
     /\ (w.wpc = "inner" /\ w'.wpc = "outer") => w'.Offset >= w.Offset
     /\ w'.chunks <= Len(w.mem) /\ w'.recs <= Len(w.mem)
     /\ w'.Offset <= Len(w.mem)]_vars

\* A walk has ended after four chunks and three records.
C17_Witness ==
  w.wpc = "done" /\ w.stop = "end" /\ w.chunks >= 4 /\ w.recs >= 3 /\ Len(w.calls) = 3

\* The payloads of the file's SEAL chunks, as spans of mem.
SealSpans(f) ==
  LET one == Len(EbmlHead) + Len(f.first.bytes)
      two == one + Len(f.second.bytes)
  IN  (IF f.first.seal THEN {[from |-> one - Len(f.first.payload), to |-> one]} ELSE {})
        \cup (IF f.second.seal THEN {[from |-> two - Len(f.second.payload), to |-> two]} ELSE {})

\* C18: for SEAL chunks made of k >= 1 well-formed records back to back the
\* verifier is called exactly k times, in payload order, each time with the
\* store parsed from that record; chunks with another tag are skipped and no
\* part of them is passed to SealParse.
C18_OncePerRecord ==
  /\ (w.wpc = "done" /\ RecordChunks(w.file)) => OncePerRecord
  /\ \A k \in 1..Len(w.parses) :
       \E sp \in SealSpans(w.file) : w.parses[k].at >= sp.from /\ w.parses[k].end = sp.to

\* Two records of one chunk and one of the next have been verified, past a
\* chunk with another tag that holds a record.
C18_Witness ==
  /\ w.wpc = "done" /\ Len(w.file.first.recs) = 2 /\ w.file.second.seal
  /\ w.file.tail = 1 /\ Len(w.calls) = 3
  /\ w.calls[1].at < w.calls[2].at /\ w.calls[2].at < w.calls[3].at

\* The calls of SealVerify whose record carries a signature.
SigCalls == SelectSeq(w.calls, LAMBDA c : SealSearch(c.given, L_s) # 0)
\* The number of a record of the file among the calls.
SigRecs == SelectSeq(FileRecs(w.file), LAMBDA r : r \in HasSig)

\* C19: of two consecutive signature-bearing records the second has the
\* first's @s as its @p and the first's record number plus one; the bytes
\* of mem from @s[0] to @s[1] are the record's raw s value; after the walk
\* @s[2] of Args is its initial value plus the number of such records.
C19_ChainThreading ==
  /\ \A k \in 1..Len(SigCalls) :
       LET c == SigCalls[k]
           s == ValueOf(c.given, F_s)
       IN  /\ s[1] <= s[2] /\ s[2] <= Len(w.mem)
           /\ (RecordChunks(w.file) /\ Findable(w.file)) =>
                SubSeq(w.mem, s[1] + 1, s[2]) = RecRaw[SigRecs[k]]
           /\ k > 1 => /\ ValueOf(c.given, F_p) = ValueOf(SigCalls[k - 1].given, F_s)
                       /\ s[3] = ValueOf(SigCalls[k - 1].given, F_s)[3] + 1
  /\ w.wpc = "done" =>
       SealGetIindex(w.Args, F_s, 2) = SealGetIindex(w.Args0, F_s, 2) + Len(SigCalls)

\* Three signed records in two chunks, the second after an unsigned one.
C19_Witness ==
  /\ w.wpc = "done" /\ Len(SigCalls) = 2 /\ Len(w.calls) = 3
  /\ w.file.first.recs = <<1, 3>> /\ w.file.second.seal
  /\ SealGetIindex(w.Args, F_s, 2) = SealGetIindex(w.Args0, F_s, 2) + 2


\* Whether the call signs, and what decides the range.
Signs == w.wpc = "signed" /\ ~NotSigning(w.Args0, w.mapped)
Continues == ValueOf(w.Args0, F_sflags) # << >> /\ ValueOf(w.Args0, F_sflags)[1] = Ord("F")
Appends ==
  LET o == ValueOf(w.Args0, F_options)
  IN  \E k \in 1..Len(o) : k + 5 <= Len(o) /\ SubSeq(o, k, k + 5) = B("append")

\* C20 as stated: the range b stored when signing has one of exactly two
\* forms, decided by @sflags[0] = 'F' alone: P to s~s+3 when continuing and
\* F~S,s~f otherwise.
C20_TwoForms ==
  Signs => ValueOf(w.Args, F_b) = (IF Continues THEN B("P~S,s~s+3") ELSE B("F~S,s~f"))

\* C20: the range b stored when signing is made of two choices: its start is
\* P when @sflags[0] = 'F' and F otherwise, its end is s~s+3 when the options
\* contain "append" and s~f otherwise; a b present before is discarded.
C20_RangeByFlagAndOption ==
  Signs =>
    /\ ValueOf(w.Args, F_b) =
         (IF Continues THEN B("P") ELSE B("F")) \o B("~S")
           \o (IF Appends THEN B(",s~s+3") ELSE B(",s~f"))
    /\ Len(SelectSeq(w.Args, LAMBDA f : f.Field = F_b)) = 1

\* A chain is continued without the append option, over a b left by the caller.
C20_Witness ==
  /\ Signs /\ Continues /\ ~Appends
  /\ ValueOf(w.Args0, F_b) = B("x") /\ ValueOf(w.Args, F_b) = B("P~S,s~f")


\* The block stored by the call, its tag and its length as _MaReadData reads
\* them, and the length of its header.
SignedBlock == ValueOf(w.Args, F_BLOCK)
BlockTag == _MaReadData(SignedBlock, 0)
BlockLen == _MaReadData(SignedBlock, BlockTag.Offset)
HeaderLen == Len(SignedBlock) - Len(w.rec)

\* C21: the block appended is the tag 0x5345414C, the length of @record and
\* @record itself: read with _MaReadData it gives the tag, then the byte
\* length of @record, and what follows is exactly @record; @s[0] and @s[1]
\* have grown by the length of the header, @s[2] has not changed, and @@iLen
\* is gone.
C21_BlockLayout ==
  Signs =>
    /\ BlockTag.Val = SealTag
    /\ BlockLen.Val = SizeT(Len(w.rec))
    /\ BlockLen.Offset = HeaderLen
    /\ ValueOf(w.Args, F_record) = w.rec
    /\ SubSeq(SignedBlock, HeaderLen + 1, Len(SignedBlock)) = w.rec
    /\ SealGetIindex(w.Args, F_s, 0) = 14 + HeaderLen
    /\ SealGetIindex(w.Args, F_s, 1) = Len(w.rec) - 3 + HeaderLen
    /\ SealGetIindex(w.Args, F_s, 2) = SealGetIindex(w.Args0, F_s, 2)
    /\ SealSearch(w.Args, F_iLen) = 0

\* A record of 127 bytes, whose length takes two bytes, has been wrapped
\* after two earlier signatures.
C21_Witness ==
  /\ Signs /\ Len(w.rec) = 127 /\ HeaderLen = 7 /\ Len(SignedBlock) = 134
  /\ SealGetIindex(w.Args, F_s, 0) = 21 /\ SealGetIindex(w.Args, F_s, 2) = 2


\* The progress of the for loop: twice the index, plus 3 while a reset is
\* pending, plus 2 while looking for a wrapper.
Rank(q) == 2 * q.i + (IF q.IsBad THEN 3 ELSE IF q.State = 0 THEN 2 ELSE 0)

\* C22: SealParse terminates: the index is stepped back by one pass at most
\* one byte, every pass of the loop that goes on raises the progress of the
\* scan, which stays within 2 * TextLen + 5, and the index never passes
\* TextLen + 1; the passes are therefore at most 2 * TextLen + 6.
C22_ParseProgress ==
  [][(pc = "loop" /\ pc' = "loop") =>
       /\ Rank(p') > Rank(p)
       /\ p'.i >= p.i - 1
       /\ Rank(p') <= 2 * Len(Text) + 5
       /\ p'.i <= Len(Text) + 1]_vars

\* A pass in State 1 has met '<' and has stepped the index back: a reset is
\* pending one byte before the byte the pass began at.
C22_Witness ==
  /\ pc = "loop" /\ p.IsBad /\ p.State = 0 /\ p.fs = p.i /\ p.fe = p.i
  /\ p.i + 1 < Len(Text) /\ Text[p.i + 2] = LT /\ Text[p.i + 1] = SPC


\* What the encoding of one byte is to be: the named entity of < > " ' &,
\* the six characters &#xHH; of a non-printable byte, the byte itself.
Encoded(c) ==
  IF c = LT THEN B("&lt;") ELSE IF c = GT THEN B("&gt;")
  ELSE IF c = DQ THEN B("&quot;") ELSE IF c = SQ THEN B("&apos;")
  ELSE IF c = AMP THEN B("&amp;")
  ELSE IF c \in 32..126 THEN <<c>>
  ELSE B("&#x") \o <<B("0123456789abcdef")[(c \div 16) + 1], B("0123456789abcdef")[(c % 16) + 1]>> \o B(";")
RECURSIVE EncodedAll(_)
EncodedAll(V) == IF V = << >> THEN << >> ELSE Encoded(Head(V)) \o EncodedAll(Tail(V))

\* C23: in the output of SealXmlEncode every < > " ' & of the input, wherever
\* it stands, is replaced by its named entity, every non-printable byte by
\* &#xHH;, and every other byte is copied, in order.
C23_EncodeEveryPosition ==
  (op = "xml" /\ cpc = "encoded") => Data = EncodedAll(orig)


\* The backslash escapes a scan of V consumes: a backslash and the byte it
\* quotes, or a backslash that is the last byte.
RECURSIVE Escapes(_)
Escapes(V) ==
  IF V = << >> THEN 0
  ELSE IF Head(V) # BSL THEN Escapes(Tail(V))
  ELSE IF Len(V) = 1 THEN 1
  ELSE 1 + Escapes(Tail(Tail(V)))

\* A decoder given V has touched no index of V at or above its length and
\* has left no more than its length.
InBounds(touched, V, out) == touched < Len(V) /\ Len(out) <= Len(V)
StrInBounds(V, out) ==
  InBounds(StrDecodeTouched(V), V, out) /\ Len(out) = Len(V) - Escapes(V)

\* C24: SealStrDecode, SealXmlDecode and SealHexDecode read and write only
\* indexes below the original ValueLen and leave ValueLen no larger; the
\* length SealStrDecode leaves is the length given less the escapes consumed.
C24_DecodersInBounds ==
  /\ (op = "str" /\ cpc = "done") => StrInBounds(SealStrEncode(orig), Data)
  /\ (op = "xmldecode" /\ cpc = "done") => InBounds(XmlDecodeTouched(orig), orig, Data)
  /\ (op = "xml" /\ cpc = "done") =>
       InBounds(XmlDecodeTouched(SealXmlEncode(orig)), SealXmlEncode(orig), Data)
  /\ (op = "hexdecode" /\ cpc = "done") => InBounds(HexDecodeTouched(orig), orig, Data)


\* C25: SealBase64Decode given a non-empty value of which the library
\* decodes no byte returns, and leaves the field empty (ValueLen 0).
C25_EmptyOnNoOutput ==
  (op = "b64decode" /\ cpc \in {"done", "fault"}
     /\ orig # << >> /\ Base64Lib(PadTo4(orig)) = << >>) =>
    cpc = "done" /\ Data = << >>

\* A name an attribute can give a field: a letter, then letters and digits.
AttrName(F) == F # << >> /\ isalpha(F[1]) /\ \A k \in 1..Len(F) : isalnum(F[k])

\* The source in Args of a field SealParse copies.
CopiedFrom(F) ==
  IF F = F_p THEN F_s
  ELSE IF F \in {F_sflags, F_dnscachelast, F_public, F_publicbin} THEN F
  ELSE << >>

\* Field f of the returned store is one of SealParse's own: the positions
\* @S and @s of a logged s attribute, or the index @RecEnd.
ParserWrote(f) ==
  /\ f.Type = "I"
  /\ \/ f.Field = F_RecEnd /\ f.Value = <<p.i>>
     \/ \E k \in Logged(L_s) :
          \/ f.Field = F_S /\ f.Value = <<p.log[k].vs, p.log[k].ve>>
          \/ /\ f.Field = F_s
             /\ SubSeq(f.Value, 1, 2) = <<Offset + p.log[k].vs, Offset + p.log[k].ve>>
             /\ Len(f.Value) = (IF Args = << >> THEN 2 ELSE 3)
             /\ Args # << >> => f.Value[3] = SealGetIindex(Args, F_s, 2) + 1

\* Field f of the returned store is a copy of a field of the caller's Args.
CopiedFromArgs(f) ==
  /\ CopiedFrom(f.Field) # << >>
  /\ SealSearch(Args, CopiedFrom(f.Field)) # 0
  /\ f.Type = Args[SealSearch(Args, CopiedFrom(f.Field))].Type
  /\ f.Value = ValueOf(Args, CopiedFrom(f.Field))

\* C26: in every store SealParse returns, a field is either named by an
\* attribute of the buffer, and then its name is a letter followed by letters
\* and digits and it is a text field, or it is a control field the parser
\* wrote itself (@S, @s, @RecEnd) or copied from the caller's Args (@p,
\* @sflags, @dnscachelast, @public, @publicbin); @field is not in the store.
C26_NoInjectedControlFields ==
  Returned =>
    /\ \A n \in LoggedNames : AttrName(n)
    /\ \A k \in 1..Len(ret) :
         /\ ret[k].Field # F_field
         /\ \/ ret[k].Field \in LoggedNames /\ AttrName(ret[k].Field) /\ ret[k].Type = "c"
            \/ ParserWrote(ret[k])
            \/ CopiedFromArgs(ret[k])

\* A store with an s attribute, its positions and the fields copied from
\* Args is returned for a buffer whose first wrapper was dropped at an
\* attribute named @s.
C26_Witness ==
  /\ Returned /\ Args # << >> /\ input.lead = 5
  /\ ValueOf(ret, L_s) # << >> /\ ValueOf(ret, F_S) # << >>
  /\ ValueOf(ret, F_p) = ValueOf(Args, F_s)
  /\ ValueOf(ret, F_sflags) = ValueOf(Args, F_sflags)
====
